---- MODULE Spec2Model ----
(***************************************************************************)
(* Model of the ACME views of django-ca (ca/django_ca/acme/views.py):      *)
(* the nonce store, the JWS request authentication of AcmeBaseView.post,   *)
(* and the account, order, authorization and challenge handlers.           *)
(*                                                                         *)
(* The database rows and the cache are the state.  Every request runs in   *)
(* a slot: post() authenticates it in one step (its only write is the      *)
(* atomic cache.incr of validate_nonce), then the handler runs its         *)
(* database statements, then dispatch() attaches a fresh Replay-Nonce.     *)
(* Handlers that are not wrapped in transaction.atomic are split at their  *)
(* read / write boundary, so that two requests can interleave there.       *)
(***************************************************************************)
EXTENDS Integers, Sequences, FiniteSets, TLC

(* ------------------------------ bounds -------------------------------- *)
MaxNonces == 4     \* nonces get_nonce may hand out in one behaviour
MaxIncr == 2       \* cap of a nonce's usage counter
MaxOrders == 1     \* orders new-order may create in one behaviour
MaxDefects == 1    \* header fields of a request that may be wrong at once
MaxVariations == 2 \* places in which a call of create_cert differs from the base call

None == "none"
Slots == {"r1", "r2"}
Keys == {"k1", "k2"}
Serials == {"ca1", "caX"}
Idents == {"a.example", "b.example"}
NonceIds == 1..MaxNonces
OrderIds == 1..MaxOrders

(* ----------------------------- nonce store ---------------------------- *)
\* cache key f"acme-nonce-{serial}-{nonce}"
CacheKeys == Serials \X NonceIds
Absent == -1

\* cache.set(cache_key, 0)
CacheSet(c, key) == [c EXCEPT ![key] = 0]

\* A variant of cache.incr that starts a missing key at 0 instead of raising.
CacheIncrFromZero(c, key) == IF c[key] = Absent THEN 1 ELSE c[key] + 1

\* cache.incr(cache_key): the backend's atomic increment; a missing key
\* raises ValueError and leaves the cache as it is.  Returns the new value,
\* Absent standing for the ValueError.
CacheIncrValue(c, key) == IF c[key] = Absent THEN Absent ELSE c[key] + 1
CacheIncr(c, key) == IF c[key] = Absent THEN c ELSE [c EXCEPT ![key] = c[key] + 1]

\* A variant of validate_nonce that accepts every counter value.
ValidateNonceAnyCount(count) == count # Absent

\* validate_nonce: False on ValueError, False if count > 1, else True
ValidateNonceResult(count) ==
    IF count = Absent THEN FALSE
    ELSE IF count > 1 THEN FALSE
    ELSE TRUE

\* A variant of validate_nonce whose cache key leaves out the serial.
validate_nonce_any_serial(c, serial, nonce) ==
    \E s \in Serials : ValidateNonceResult(CacheIncrValue(c, <<s, nonce>>))

validate_nonce(c, serial, nonce) == ValidateNonceResult(CacheIncrValue(c, <<serial, nonce>>))

(* ------------------------------- state -------------------------------- *)
VARIABLES
    cache,       \* the Django cache: nonce key -> usage counter, Absent if unset
    nextNonce,   \* how many nonces secrets.token_bytes has produced so far
    nonces,      \* history of each nonce key: issued by get_nonce, and the number
                 \* of validate_nonce calls that returned True (accepted) and
                 \* whether one returned False after it was issued (refused)
    acct,        \* AcmeAccount rows, by account key (its slug and kid)
    orders,      \* AcmeOrder rows with their authorizations, challenges, certificate
    jobs,        \* tasks handed to run_task, and how many of them the worker ran
    pc,          \* where each request slot is
    req,         \* the request a slot is working on
    resp,        \* the response a slot produced
    rejected,    \* the refusal (the check of post() that failed, the envelope,
                 \* requires_key, the nonce looked at) if the last step refused
                 \* a request, NoRefusal otherwise
    call,        \* the call of Profile.create_cert that is running: its
                 \* arguments, where it is, and its local variables
    revocation   \* the Certificate rows issued through ACME (revoked,
                 \* revoked_reason) and the last revocation request with its
                 \* response

vars == <<cache, nextNonce, nonces, acct, orders, jobs, pc, req, resp, rejected, call,
          revocation>>

(* --------------------------- request envelope ------------------------- *)
\* The JWS envelope of a POST as post() reads it:
\*   ctype  request.content_type == "application/jose+json"
\*   parse  acme.jws.JWS.json_loads(request.body) succeeds
\*   jwk    combined.jwk (an embedded key) or None
\*   kid    combined.kid (the key-id of the account of that key) or None
\*   serial the CA serial of the URL
\*   nsigs  len(jws.signatures)
\*   alg    combined.alg is set
\*   sig    the key whose private half signed the JWS
Envelopes ==
    [ctype : BOOLEAN, parse : BOOLEAN, jwk : Keys \cup {None}, kid : Keys \cup {None},
     serial : Serials, nsigs : {1, 2}, alg : BOOLEAN, sig : Keys]

\* CertificateAuthority.objects.acme().usable().get(serial=serial) finds a CA
UsableCAs == {"ca1"}

PresentedKey(e) == IF e.jwk # None THEN e.jwk ELSE e.kid

B2N(b) == IF b THEN 1 ELSE 0

\* How many parts of an envelope deviate from a well-formed request.
NumDefects(e) ==
    B2N(~e.ctype) + B2N(~e.parse) + B2N((e.jwk = None) = (e.kid = None))
    + B2N(e.serial \notin UsableCAs) + B2N(e.nsigs # 1) + B2N(~e.alg)
    + B2N(PresentedKey(e) # None /\ e.sig # PresentedKey(e))

\* Envelopes in order but for the keys they present: both a jwk and a kid, or
\* neither, addressed to any serial.
KeyShapeEnvelopes ==
    {[ctype |-> TRUE, parse |-> TRUE, jwk |-> k, kid |-> k, serial |-> s,
      nsigs |-> 1, alg |-> TRUE, sig |-> "k1"] : k \in {None, "k1"}, s \in Serials}

\* The envelopes the request actions draw from.
SentEnvelopes == {e \in Envelopes : NumDefects(e) <= MaxDefects} \cup KeyShapeEnvelopes

\* AcmeAccount.objects.viewable().get(ca=self.ca, kid=combined.kid) finds a row
AccountViewable(a, kid) == a[kid].status # "absent"

\* AcmeAccount.usable
AccountUsable(a, kid) == a[kid].status = "valid"

\* A variant of the signature check that accepts every signature.
JwsVerifyAny(e, key) == TRUE

\* self.jws.verify(self.jwk)
JwsVerify(e, key) == e.sig = key

\* post() with the two key checks made together, before the CA is looked up
PreNonceKeysFirst(e, rk, a) ==
    IF ~e.ctype THEN "contentType"
    ELSE IF ~e.parse THEN "parse"
    ELSE IF e.jwk # None /\ e.kid # None THEN "jwkAndKid"
    ELSE IF e.jwk = None /\ e.kid = None THEN "noKey"
    ELSE IF e.serial \notin UsableCAs THEN "ca"
    ELSE IF e.jwk # None /\ ~rk THEN "jwkRefused"
    ELSE IF e.jwk = None /\ e.kid # None /\ rk THEN "kidRefused"
    ELSE IF e.jwk = None /\ e.kid # None /\ ~AccountViewable(a, e.kid) THEN "accountMissing"
    ELSE IF e.jwk = None /\ e.kid # None /\ ~AccountUsable(a, e.kid) THEN "accountUnusable"
    ELSE IF e.nsigs # 1 THEN "signatures"
    ELSE IF ~e.alg THEN "alg"
    ELSE IF ~JwsVerify(e, PresentedKey(e)) THEN "signature"
    ELSE "ok"

\* post(), from the content type check to the signature check: the first
\* check that fails, "ok" if all pass.  rk is requires_key.
PreNonce(e, rk, a) ==
    IF ~e.ctype THEN "contentType"
    ELSE IF ~e.parse THEN "parse"
    ELSE IF e.jwk # None /\ e.kid # None THEN "jwkAndKid"
    ELSE IF e.serial \notin UsableCAs THEN "ca"
    ELSE IF e.jwk # None /\ ~rk THEN "jwkRefused"
    ELSE IF e.jwk = None /\ e.kid # None /\ rk THEN "kidRefused"
    ELSE IF e.jwk = None /\ e.kid # None /\ ~AccountViewable(a, e.kid) THEN "accountMissing"
    ELSE IF e.jwk = None /\ e.kid # None /\ ~AccountUsable(a, e.kid) THEN "accountUnusable"
    ELSE IF e.jwk = None /\ e.kid = None THEN "noKey"
    ELSE IF e.nsigs # 1 THEN "signatures"
    ELSE IF ~e.alg THEN "alg"
    ELSE IF ~JwsVerify(e, PresentedKey(e)) THEN "signature"
    ELSE "ok"

\* post() as a whole: nonce is the header nonce, url says whether combined.url
\* equals request.build_absolute_uri().
Authenticate(e, nonce, url, rk, a, c) ==
    IF PreNonce(e, rk, a) # "ok" THEN PreNonce(e, rk, a)
    ELSE IF ~validate_nonce(c, e.serial, nonce) THEN "nonce"
    ELSE IF ~url THEN "url"
    ELSE "ok"

\* The response post() raises when a check fails
ErrorKind(check) ==
    IF check = "contentType" THEN "unsupportedMediaType"
    ELSE IF check = "ca" THEN "notFound"
    ELSE IF check \in {"accountMissing", "accountUnusable", "url"} THEN "unauthorized"
    ELSE IF check = "nonce" THEN "badNonce"
    ELSE "malformed"

\* post() calls validate_nonce exactly when every earlier check passed
ReachesNonce(e, rk, a) == PreNonce(e, rk, a) = "ok"

(* ------------------------------ database ------------------------------ *)
AccountStatus == {"absent", "valid", "deactivated"}
\* rows counts the rows of AcmeAccount that hold the key
NoAccount == [status |-> "absent", contact |-> <<>>, rows |-> 0]

\* Order statuses in the order of the data model
OrderStatusSeq == <<"pending", "ready", "processing", "valid", "invalid">>
OrderRank(s) == CHOOSE n \in 1..Len(OrderStatusSeq) : OrderStatusSeq[n] = s

NoRow == [i \in Idents |-> None]
NoOrder == [status |-> "absent", account |-> None, idents |-> {},
            auth |-> NoRow, chall |-> NoRow, cert |-> "none"]

\* AcmeOrder.objects.viewable().account(account).get(slug=slug) finds the order
OrderFound(os, account, o) ==
    /\ o \in OrderIds
    /\ os[o].status # "absent"
    /\ os[o].account = account

\* AcmeChallenge.objects.viewable().account(account).url().get(slug=slug), and
\* the same lookup of AcmeAuthorization: the row exists and is the account's
ChildFound(os, account, o, i) ==
    /\ OrderFound(os, account, o)
    /\ i \in os[o].idents

\* AcmeChallenge.usable
ChallengeUsable(status) == status = "pending"

\* order.add_authorizations(identifiers): one pending authorization per
\* identifier, each with its challenge
NewOrderRow(account, ids) ==
    [status |-> "pending", account |-> account, idents |-> ids,
     auth |-> [i \in Idents |-> IF i \in ids THEN "pending" ELSE None],
     chall |-> [i \in Idents |-> IF i \in ids THEN "pending" ELSE None],
     cert |-> "none"]

NoJobs == [issueEnq |-> [o \in OrderIds |-> 0], issueRun |-> [o \in OrderIds |-> 0],
           valEnq |-> [c \in OrderIds \X Idents |-> 0],
           valRun |-> [c \in OrderIds \X Idents |-> 0]]

(* ------------------------------ contacts ------------------------------ *)
\* A contact string, by the features validate_contacts looks at:
\*   mailto  it starts with "mailto:"
\*   quoted  the address starts with a double quote
\*   comma   the address contains ","
\*   at      the address contains "@"
\*   hfield  the part after the first "@" contains "?"
\*   syntax  validate_email(addr) accepts the address
Contacts ==
    [mailto : BOOLEAN, quoted : BOOLEAN, comma : BOOLEAN, at : BOOLEAN,
     hfield : BOOLEAN, syntax : BOOLEAN, name : {"a", "b"}]

GoodContact(n) == [mailto |-> TRUE, quoted |-> FALSE, comma |-> FALSE, at |-> TRUE,
                   hfield |-> FALSE, syntax |-> TRUE, name |-> n]

\* validate_contacts for one contact: what the loop body raises
validate_contact(c) ==
    IF ~c.mailto THEN "unsupportedContact"
    ELSE IF c.quoted THEN "invalidContact"
    ELSE IF c.comma THEN "invalidContact"
    ELSE IF ~c.at THEN "valueError"
    ELSE IF c.hfield THEN "invalidContact"
    ELSE IF ~c.syntax THEN "invalidContact"
    ELSE "ok"

\* validate_contacts: the first contact that fails decides
RECURSIVE validate_contacts(_)
validate_contacts(cs) ==
    IF cs = <<>> THEN "ok"
    ELSE IF validate_contact(Head(cs)) # "ok" THEN validate_contact(Head(cs))
    ELSE validate_contacts(Tail(cs))

\* self.ca.acme_requires_contact
AcmeRequiresContact(serial) == serial = "ca1"

\* The contact lists the request actions draw from.
SentContacts ==
    {<<>>, <<GoodContact("b")>>,
     <<GoodContact("b"), [GoodContact("a") EXCEPT !.syntax = FALSE]>>}

(* ------------------------- new-order validation ----------------------- *)
\* settings CA_ACME_MAX_CERT_VALIDITY, in the time unit of the model
ACME_MAX_CERT_VALIDITY == 2
NoTime == -1

\* The checks of AcmeNewOrderView.acme_request on a NewOrder message that
\* arrives at time now: "malformed" or "ok"
NewOrderCheck(now, nb, na, ids) ==
    IF nb # NoTime /\ nb < now THEN "malformed"
    ELSE IF na # NoTime /\ na > now + ACME_MAX_CERT_VALIDITY THEN "malformed"
    ELSE IF nb # NoTime /\ na # NoTime /\ nb > na THEN "malformed"
    ELSE IF ids = {} THEN "malformed"
    ELSE "ok"

(* ---------------------------- CSR validation -------------------------- *)
Names == Idents \cup {"c.example"}
NoSAN == {None}

\* A certificate request, by what validate_csr reads:
\*   sig     csr.is_signature_valid
\*   hash    csr.signature_hash_algorithm
\*   subject csr.subject is not empty
\*   sane    check_name(csr.subject) accepts the subject
\*   cn      the CommonName of the subject, None if it has none
\*   san     the names of the SubjectAlternativeName extension, NoSAN if the
\*           CSR has no such extension
CSRs ==
    [sig : BOOLEAN, hash : {"sha256", "sha1", "md5"}, subject : BOOLEAN, sane : BOOLEAN,
     cn : Names \cup {None}, san : (SUBSET Names) \cup {NoSAN}]

NoCSR == [sig |-> FALSE, hash |-> "sha256", subject |-> FALSE, sane |-> TRUE,
          cn |-> None, san |-> NoSAN]

\* check_name(csr.subject): the subject is refused
check_name(csr) == ~csr.sane

\* names_from_order: the names of the order's authorizations
NamesFromOrder(row) == row.idents

\* A variant of validate_csr that accepts a CSR naming more than the order.
validate_csr_superset(csr, names_from_order) ==
    IF ~csr.sig THEN "badCSR"
    ELSE IF csr.hash \in {"md5", "sha1"} THEN "badCSR"
    ELSE IF csr.subject /\ check_name(csr) THEN "badCSR"
    ELSE IF csr.subject /\ csr.cn # None /\ csr.cn \notin names_from_order THEN "badCSR"
    ELSE IF csr.san = NoSAN THEN "badCSR"
    ELSE IF ~(names_from_order \subseteq csr.san) THEN "badCSR"
    ELSE "ok"

\* A variant of validate_csr that does not look at the CommonName.
validate_csr_any_cn(csr, names_from_order) ==
    IF ~csr.sig THEN "badCSR"
    ELSE IF csr.hash \in {"md5", "sha1"} THEN "badCSR"
    ELSE IF csr.subject /\ check_name(csr) THEN "badCSR"
    ELSE IF csr.san = NoSAN THEN "badCSR"
    ELSE IF names_from_order # csr.san THEN "badCSR"
    ELSE "ok"

\* validate_csr: "badCSR" if it raises AcmeBadCSR, else "ok"
validate_csr(csr, names_from_order) ==
    IF ~csr.sig THEN "badCSR"
    ELSE IF csr.hash \in {"md5", "sha1"} THEN "badCSR"
    ELSE IF csr.subject /\ check_name(csr) THEN "badCSR"
    ELSE IF csr.subject /\ csr.cn # None /\ csr.cn \notin names_from_order THEN "badCSR"
    ELSE IF csr.san = NoSAN THEN "badCSR"
    ELSE IF names_from_order # csr.san THEN "badCSR"
    ELSE "ok"

\* The certificate requests the request actions draw from.
SentCSRs ==
    {[sig |-> TRUE, hash |-> "sha256", subject |-> FALSE, sane |-> TRUE, cn |-> None, san |-> n] :
        n \in {{"a.example"}, Idents, NoSAN}}

(* ------------------------------ requests ------------------------------ *)
Views == {"new-account", "account", "new-order", "order", "finalize",
          "authz", "challenge", "cert"}

\* requires_key of the view class
RequiresKey(v) == v = "new-account"

\* AcmeMessageBaseView subclasses parse a message from the payload
MessageViews == {"new-account", "account", "new-order", "finalize"}

\* ignore_body of the AcmePostAsGetView subclasses
IgnoreBody(v) == v = "challenge"

\* What a slot keeps of its request: the view, the serial of the URL, the
\* key post() resolved (self.jwk, and self.account for a key-id), the
\* envelope and whether its url matched, the account row the handler read
\* (snap), the slug
\* (k for an account, o for an order, o and i for an authorization or a
\* challenge), whether the payload is empty, a parsable message or garbage,
\* and the fields of the message.
NoEnv == [ctype |-> FALSE, parse |-> FALSE, jwk |-> None, kid |-> None,
          serial |-> None, nsigs |-> 0, alg |-> FALSE, sig |-> None]
NoNonce == 0
NoRefusal == [check |-> None, env |-> NoEnv, rk |-> FALSE, nonce |-> NoNonce]
Refusal(check, e, rk, nonce) == [check |-> check, env |-> e, rk |-> rk, nonce |-> nonce]

NoReq == [view |-> None, serial |-> None, key |-> None, env |-> NoEnv, url |-> FALSE,
          snap |-> NoAccount,
          k |-> None, o |-> 0, i |-> None, body |-> "empty",
          status |-> None, contact |-> <<>>, ore |-> FALSE, other |-> FALSE,
          idents |-> {}, now |-> 0, nb |-> NoTime, na |-> NoTime, csr |-> NoCSR]

\* The requests the request actions draw from, per view.
Inputs(v) ==
    IF v = "new-account" THEN
        {[NoReq EXCEPT !.body = "msg", !.contact = <<GoodContact("a")>>, !.ore = b] :
            b \in BOOLEAN}
        \cup {[NoReq EXCEPT !.body = "msg", !.contact = c] : c \in SentContacts}
        \cup {[NoReq EXCEPT !.body = "garbage"]}
    ELSE IF v = "account" THEN
        {[NoReq EXCEPT !.body = "msg", !.k = k, !.status = "deactivated"] : k \in Keys}
        \cup {[NoReq EXCEPT !.body = "msg", !.k = k, !.contact = c] :
                k \in Keys, c \in SentContacts}
        \cup {[NoReq EXCEPT !.body = "garbage"]}
    ELSE IF v = "new-order" THEN
        {[NoReq EXCEPT !.body = "msg", !.idents = ids, !.now = 1] :
            ids \in {{}, {"a.example"}, Idents}}
        \cup {[NoReq EXCEPT !.body = "msg", !.idents = Idents, !.now = 1, !.nb = 0],
              [NoReq EXCEPT !.body = "garbage"]}
    ELSE IF v = "finalize" THEN
        {[NoReq EXCEPT !.body = "msg", !.o = o, !.csr = c] : o \in OrderIds, c \in SentCSRs}
        \cup {[NoReq EXCEPT !.body = "garbage"]}
    ELSE IF v = "order" THEN
        {[NoReq EXCEPT !.o = o, !.body = b] : o \in OrderIds, b \in {"empty", "msg"}}
    ELSE IF v = "cert" THEN
        {[NoReq EXCEPT !.o = o] : o \in OrderIds}
    ELSE
        {[NoReq EXCEPT !.o = o, !.i = i] : o \in OrderIds, i \in Idents}

\* A response: its kind, and the status or the error type it carries
\* A response: its kind, the status or the error type it carries, and the
\* identifiers of the authorizations it lists
NoResp == [kind |-> None, detail |-> None, listed |-> {}]
Reply(kind, detail) == [kind |-> kind, detail |-> detail, listed |-> {}]

InFlight == Cardinality({s \in Slots : pc[s] # "idle"})

(* ----------------------------- nonce actions -------------------------- *)
\* get_nonce: secrets.token_bytes(32) yields a value it has not yielded
\* before; the nonce is stored under the serial of the URL.
\* A variant of get_nonce that returns the nonce without storing it.
get_nonce_unstored(c, n, serial) == c

get_nonce(c, n, serial) == CacheSet(c, <<serial, n + 1>>)

NoLog == [issued |-> FALSE, accepted |-> 0, refused |-> FALSE]

\* The history after get_nonce
Issue(lg, n, serial) == [lg EXCEPT ![<<serial, n + 1>>].issued = TRUE]

\* The history after validate_nonce returned ok for the key
Consume(lg, key, ok) ==
    IF ok THEN [lg EXCEPT ![key].accepted = @ + 1]
    ELSE IF lg[key].issued THEN [lg EXCEPT ![key].refused = TRUE]
    ELSE lg

\* Every response takes one nonce, so a request or a new-nonce call is only
\* admitted while the nonces of the behaviour suffice for it.
NonceLeft == nextNonce + InFlight < MaxNonces

\* AcmeNewNonceView: HEAD or GET of new-nonce under one of the serials
NewNonceOn(serials) ==
    /\ NonceLeft
    /\ \E serial \in serials :
        /\ cache' = get_nonce(cache, nextNonce, serial)
        /\ nonces' = Issue(nonces, nextNonce, serial)
    /\ nextNonce' = nextNonce + 1
    /\ UNCHANGED <<acct, orders, jobs, pc, req, resp>> /\ rejected' = NoRefusal /\ call' = call /\ revocation' = revocation

\* A cache entry times out.
Expire ==
    /\ \E key \in CacheKeys :
        /\ cache[key] # Absent
        /\ cache' = [cache EXCEPT ![key] = Absent]
    /\ UNCHANGED <<nextNonce, nonces, acct, orders, jobs, pc, req, resp>> /\ rejected' = NoRefusal /\ call' = call /\ revocation' = revocation

(* ------------------------- AcmeBaseView.post -------------------------- *)
\* post() refuses the request: dispatch() answers at once, with a fresh
\* Replay-Nonce; c is the cache as post() leaves it.
Reject(r, c, lg, serial, refusal, track) ==
    /\ cache' = get_nonce(c, nextNonce, serial)
    /\ nonces' = Issue(lg, nextNonce, serial)
    /\ nextNonce' = nextNonce + 1
    /\ rejected' = IF track = "none" THEN NoRefusal ELSE refusal
    /\ call' = call /\ revocation' = revocation
    /\ UNCHANGED <<pc, req, resp>>

\* A variant of post() that calls validate_nonce before any other check.
PostCacheAlways(c, key, reached) == CacheIncr(c, key)

\* The cache as post() leaves it: validate_nonce, and with it cache.incr, runs
\* only if every earlier check passed (reached).
PostCache(c, key, reached) == IF reached THEN CacheIncr(c, key) ELSE c

\* Only as many new-order requests are admitted as there are order rows left.
OrderLeft ==
    Cardinality({o \in OrderIds : orders[o].status # "absent"})
    + Cardinality({s \in Slots : pc[s] = "handler" /\ req[s].view = "new-order"})
    < MaxOrders

\* A request arrives and post() runs up to the call of process_acme_request.
\* The envelope is drawn from envs, the view from views; track says what is
\* recorded in rejected of a refusal: nothing ("none"), the refusal with the
\* nonce if validate_nonce saw it ("check"), or the refusal with the nonce of
\* the request whichever check refused it ("nonce").
Post(r, envs, views, track) ==
    /\ pc[r] = "idle"
    /\ NonceLeft
    /\ UNCHANGED <<acct, orders, jobs>>
    /\ \E rk \in {RequiresKey(w) : w \in views}, e \in envs :
       \E n \in IF ReachesNonce(e, rk, acct) \/ track = "nonce" THEN NonceIds ELSE {NoNonce} :
        LET key == <<e.serial, n>>
            reached == ReachesNonce(e, rk, acct)
            c == PostCache(cache, key, reached)
            lg == IF reached
                  THEN Consume(nonces, key, validate_nonce(cache, e.serial, n))
                  ELSE nonces IN
        /\ reached => cache[key] < MaxIncr
        /\ IF ~reached THEN
                Reject(r, c, lg, e.serial, Refusal(PreNonce(e, rk, acct), e, rk, n), track)
           ELSE \E url \in BOOLEAN :
            LET out == Authenticate(e, n, url, rk, acct, cache) IN
            /\ IF out # "ok"
               THEN Reject(r, c, lg, e.serial, Refusal(out, e, rk, n), track)
               ELSE \E v \in {w \in views : RequiresKey(w) = rk} : \E m \in Inputs(v) :
                    /\ v = "new-order" => OrderLeft
                    /\ cache' = c
                    /\ nonces' = lg
                    /\ pc' = [pc EXCEPT ![r] = "handler"]
                    /\ req' = [req EXCEPT ![r] = [m EXCEPT !.view = v, !.serial = e.serial,
                                                      !.key = PresentedKey(e),
                                                      !.env = e, !.url = url]]
                    /\ resp' = [resp EXCEPT ![r] = NoResp]
                    /\ nextNonce' = nextNonce /\ rejected' = NoRefusal /\ call' = call /\ revocation' = revocation

\* dispatch(): the response leaves with a fresh Replay-Nonce
Respond(r) ==
    /\ pc[r] = "respond"
    /\ cache' = get_nonce(cache, nextNonce, req[r].serial)
    /\ nonces' = Issue(nonces, nextNonce, req[r].serial)
    /\ nextNonce' = nextNonce + 1
    /\ pc' = [pc EXCEPT ![r] = "idle"]
    /\ req' = [req EXCEPT ![r] = NoReq]
    /\ resp' = [resp EXCEPT ![r] = NoResp]
    /\ UNCHANGED <<acct, orders, jobs>> /\ rejected' = NoRefusal /\ call' = call /\ revocation' = revocation

\* A handler ends with a response.
Finish(r, kind, detail) ==
    /\ pc' = [pc EXCEPT ![r] = "respond"]
    /\ resp' = [resp EXCEPT ![r] = Reply(kind, detail)]
    /\ req' = req /\ rejected' = NoRefusal /\ call' = call /\ revocation' = revocation

\* process_acme_request of AcmeMessageBaseView and AcmePostAsGetView: the
\* response kind if the payload is refused, "ok" otherwise
PayloadCheck(m) ==
    IF m.view \in MessageViews
    THEN (IF m.body # "msg" THEN "malformedPayload" ELSE "ok")
    ELSE (IF ~IgnoreBody(m.view) /\ m.body # "empty" THEN "malformed" ELSE "ok")

\* The handler is entered with a payload that process_acme_request refuses.
BadPayload(r) ==
    /\ pc[r] = "handler"
    /\ PayloadCheck(req[r]) # "ok"
    /\ Finish(r, PayloadCheck(req[r]), None)
    /\ UNCHANGED <<cache, nextNonce, nonces, acct, orders, jobs>>

Handles(r, v) == pc[r] = "handler" /\ req[r].view = v /\ PayloadCheck(req[r]) = "ok"

(* ------------------------- account handlers --------------------------- *)
\* message.emails: the contacts with the mail-address scheme
Emails(cs) == SelectSeq(cs, LAMBDA c : c.mailto)

\* AcmeNewAccountView.acme_request: the response kind and error type
\* A variant of new-account that creates the account without looking for
\* one that has the key.
NewAccountOutcomeNoLookup(a, m) ==
    IF m.ore THEN
        (IF a[m.key].status # "absent" THEN Reply("account", a[m.key].status)
         ELSE Reply("malformed", "accountDoesNotExist"))
    ELSE IF AcmeRequiresContact(m.serial) /\ Emails(m.contact) = <<>>
        THEN Reply("unauthorized", None)
    ELSE IF validate_contacts(m.contact) = "valueError" THEN Reply("error", None)
    ELSE IF validate_contacts(m.contact) # "ok"
        THEN Reply("malformed", validate_contacts(m.contact))
    ELSE Reply("accountCreated", "valid")

\* A variant of new-account that does not look at only_return_existing.
NewAccountOutcomeIgnoreOre(a, m) ==
    IF a[m.key].status # "absent" THEN Reply("account", a[m.key].status)
    ELSE IF AcmeRequiresContact(m.serial) /\ Emails(m.contact) = <<>>
        THEN Reply("unauthorized", None)
    ELSE IF validate_contacts(m.contact) = "valueError" THEN Reply("error", None)
    ELSE IF validate_contacts(m.contact) # "ok"
        THEN Reply("malformed", validate_contacts(m.contact))
    ELSE Reply("accountCreated", "valid")

NewAccountOutcome(a, m) ==
    IF m.ore THEN
        (IF a[m.key].status # "absent" THEN Reply("account", a[m.key].status)
         ELSE Reply("malformed", "accountDoesNotExist"))
    ELSE IF a[m.key].status # "absent" THEN Reply("account", a[m.key].status)
    ELSE IF AcmeRequiresContact(m.serial) /\ Emails(m.contact) = <<>>
        THEN Reply("unauthorized", None)
    ELSE IF validate_contacts(m.contact) = "valueError" THEN Reply("error", None)
    ELSE IF validate_contacts(m.contact) # "ok"
        THEN Reply("malformed", validate_contacts(m.contact))
    ELSE Reply("accountCreated", "valid")

\* AcmeAccount(...), full_clean() and save(): one more row with the key
AccountCreate(a, m) ==
    [a EXCEPT ![m.key] = [status |-> "valid", contact |-> m.contact, rows |-> @.rows + 1]]

NewAccount(r) ==
    /\ Handles(r, "new-account")
    /\ LET out == NewAccountOutcome(acct, req[r]) IN
        /\ acct' = IF out.kind = "accountCreated"
                   THEN AccountCreate(acct, req[r])
                   ELSE acct
        /\ Finish(r, out.kind, out.detail)
    /\ UNCHANGED <<cache, nextNonce, nonces, orders, jobs>>

\* A variant of the account update that validates the first contact only.
AccountOutcomeFirstContact(a, m) ==
    IF a[m.k].status = "absent" THEN Reply("error", None)
    ELSE IF m.status = "deactivated" THEN Reply("ok", None)
    ELSE IF m.contact # <<>> THEN
        (IF validate_contact(Head(m.contact)) = "valueError" THEN Reply("error", None)
         ELSE IF validate_contact(Head(m.contact)) # "ok"
            THEN Reply("malformed", validate_contact(Head(m.contact)))
         ELSE Reply("ok", None))
    ELSE Reply("malformed", None)

\* AcmeAccountView.acme_request up to account.save(): the response if the
\* request is refused, "ok" otherwise.  The account is the one the slug
\* names; a slug without a row raises DoesNotExist.
AccountOutcome(a, m) ==
    IF a[m.k].status = "absent" THEN Reply("error", None)
    ELSE IF m.status = "deactivated" THEN Reply("ok", None)
    ELSE IF m.contact # <<>> THEN
        (IF validate_contacts(m.contact) = "valueError" THEN Reply("error", None)
         ELSE IF validate_contacts(m.contact) # "ok"
            THEN Reply("malformed", validate_contacts(m.contact))
         ELSE Reply("ok", None))
    ELSE Reply("malformed", None)

\* The row account.save() writes: every field of the instance that was
\* read, with the one the request changed.
AccountSaved(snap, m) ==
    IF m.status = "deactivated" THEN [snap EXCEPT !.status = "deactivated"]
    ELSE [snap EXCEPT !.contact = m.contact]

\* A variant of the cascade that cancels the orders and authorizations of
\* the account whatever their status.
CancelEvery(os, k) ==
    [o \in OrderIds |->
        IF os[o].account # k THEN os[o]
        ELSE [os[o] EXCEPT
                !.status = "invalid",
                !.auth = [i \in Idents |-> IF os[o].auth[i] # None
                                           THEN "deactivated" ELSE os[o].auth[i]]]]

\* account.orders.filter(status=pending).update(status=invalid) and
\* AcmeAuthorization...filter(order__account=account, status=pending)
\*     .update(status=deactivated)
CancelPending(os, k) ==
    [o \in OrderIds |->
        IF os[o].account # k THEN os[o]
        ELSE [os[o] EXCEPT
                !.status = IF @ = "pending" THEN "invalid" ELSE @,
                !.auth = [i \in Idents |-> IF os[o].auth[i] = "pending"
                                           THEN "deactivated" ELSE os[o].auth[i]]]]

\* AcmeAccount.objects.get(slug=slug) and the checks of the message.  The
\* transaction of the view does not lock the row: another request can commit
\* between this read and the save.
AccountRead(r) ==
    /\ Handles(r, "account")
    /\ LET out == AccountOutcome(acct, req[r]) IN
        IF out.kind = "ok" THEN
            /\ pc' = [pc EXCEPT ![r] = "save"]
            /\ req' = [req EXCEPT ![r].snap = acct[req[r].k]]
            /\ resp' = resp /\ rejected' = NoRefusal /\ call' = call /\ revocation' = revocation
        ELSE Finish(r, out.kind, out.detail)
    /\ UNCHANGED <<cache, nextNonce, nonces, acct, orders, jobs>>

\* account.save(), the two updates that cancel what is pending, and the
\* commit; the response shows the instance that was saved.
AccountWrite(r) ==
    /\ pc[r] = "save"
    /\ req[r].view = "account"
    /\ LET m == req[r]
           row == AccountSaved(m.snap, m) IN
        /\ acct' = [acct EXCEPT ![m.k] = row]
        /\ orders' = IF m.status = "deactivated" THEN CancelPending(orders, m.k)
                      ELSE orders
        /\ Finish(r, "account", row.status)
    /\ UNCHANGED <<cache, nextNonce, nonces, jobs>>

(* -------------------------- order handlers ---------------------------- *)
FreeOrder == CHOOSE o \in OrderIds : orders[o].status = "absent"

\* AcmeNewOrderView.acme_request
NewOrder(r) ==
    /\ Handles(r, "new-order")
    /\ LET m == req[r] IN
        IF NewOrderCheck(m.now, m.nb, m.na, m.idents) # "ok" THEN
            /\ Finish(r, "malformed", None)
            /\ UNCHANGED orders
        ELSE
            /\ orders' = [orders EXCEPT ![FreeOrder] = NewOrderRow(m.key, m.idents)]
            /\ Finish(r, "orderCreated", "pending")
    /\ UNCHANGED <<cache, nextNonce, nonces, acct, jobs>>

\* A variant of the views that answers NotFound if no order has the slug.
ViewOutcomeNotFound(os, m) ==
    IF m.o \notin OrderIds THEN Reply("notFound", None)
    ELSE IF os[m.o].status = "absent" THEN Reply("notFound", None)
    ELSE IF os[m.o].account # m.key THEN Reply("unauthorized", None)
    ELSE IF m.view = "order" THEN Reply("order", os[m.o].status)
    ELSE IF m.view = "authz" THEN
        (IF m.i \in os[m.o].idents THEN Reply("authz", os[m.o].auth[m.i])
         ELSE Reply("notFound", None))
    ELSE
        (IF os[m.o].cert = "issued" THEN Reply("cert", None)
         ELSE Reply("notFound", None))

\* A variant of the order view that lists every authorization.
OrderViewAuthzAll(row) == row.idents

\* The authorizations AcmeOrderView lists
OrderViewAuthz(row) ==
    IF row.status \in {"valid", "invalid"}
    THEN {i \in row.idents : row.auth[i] = "valid"}
    ELSE row.idents

\* AcmeOrderView, AcmeAuthorizationView and AcmeCertificateView: the response
ViewOutcome(os, m) ==
    IF m.view = "order" THEN
        (IF OrderFound(os, m.key, m.o)
         THEN [Reply("order", os[m.o].status) EXCEPT !.listed = OrderViewAuthz(os[m.o])]
         ELSE Reply("unauthorized", None))
    ELSE IF m.view = "authz" THEN
        (IF ChildFound(os, m.key, m.o, m.i) THEN Reply("authz", os[m.o].auth[m.i])
         ELSE Reply("unauthorized", None))
    ELSE
        (IF OrderFound(os, m.key, m.o) /\ os[m.o].cert = "issued" THEN Reply("cert", None)
         ELSE Reply("unauthorized", None))

ViewResource(r) ==
    /\ pc[r] = "handler"
    /\ req[r].view \in {"order", "authz", "cert"}
    /\ PayloadCheck(req[r]) = "ok"
    /\ pc' = [pc EXCEPT ![r] = "respond"]
    /\ resp' = [resp EXCEPT ![r] = ViewOutcome(orders, req[r])]
    /\ req' = req /\ rejected' = NoRefusal /\ call' = call /\ revocation' = revocation
    /\ UNCHANGED <<cache, nextNonce, nonces, acct, orders, jobs>>

\* The resource views that look a row up by its slug
SlugViews == {"order", "finalize", "authz", "challenge", "cert"}

\* No row of the view's model has the slug of the request.
SlugMissing(os, m) ==
    IF m.o \notin OrderIds THEN TRUE
    ELSE \/ os[m.o].status = "absent"
         \/ m.view \in {"authz", "challenge"} /\ m.i \notin os[m.o].idents
         \/ m.view = "cert" /\ os[m.o].cert # "issued"

\* A row has the slug of the request, and it is another account's.
SlugForeign(os, m) == ~SlugMissing(os, m) /\ os[m.o].account # m.key

\* A variant of the finalize checks without the check of order.status.
FinalizeCheckNoStatus(os, m) ==
    IF ~OrderFound(os, m.key, m.o) THEN Reply("unauthorized", None)
    ELSE IF \E i \in os[m.o].idents : os[m.o].auth[i] # "valid"
        THEN Reply("forbidden", "orderNotReady")
    ELSE IF validate_csr(m.csr, NamesFromOrder(os[m.o])) # "ok" THEN Reply("badCSR", None)
    ELSE Reply("ok", None)

\* AcmeOrderFinalizeView.acme_request up to and including validate_csr: the
\* response kind if the request is refused, "ok" otherwise
FinalizeCheckOutcome(os, m) ==
    IF ~OrderFound(os, m.key, m.o) THEN Reply("unauthorized", None)
    ELSE IF os[m.o].status # "ready" THEN Reply("forbidden", "orderNotReady")
    ELSE IF \E i \in os[m.o].idents : os[m.o].auth[i] # "valid"
        THEN Reply("forbidden", "orderNotReady")
    ELSE IF validate_csr(m.csr, NamesFromOrder(os[m.o])) # "ok" THEN Reply("badCSR", None)
    ELSE Reply("ok", None)

\* A variant of finalize that creates the AcmeCertificate and saves the
\* order as processing before it validates the CSR.
FinalizeCheckCreatesFirst(r) ==
    /\ Handles(r, "finalize")
    /\ LET out == FinalizeCheckOutcome(orders, req[r]) IN
        IF out.kind = "ok"
        THEN /\ pc' = [pc EXCEPT ![r] = "save"] /\ UNCHANGED <<req, resp>>
             /\ rejected' = NoRefusal /\ call' = call /\ revocation' = revocation
             /\ orders' = orders
        ELSE /\ Finish(r, out.kind, out.detail)
             /\ orders' = IF out.kind = "badCSR"
                           THEN [orders EXCEPT ![req[r].o].cert = "created",
                                               ![req[r].o].status = "processing"]
                           ELSE orders
    /\ UNCHANGED <<cache, nextNonce, nonces, acct, jobs>>

\* The order is looked up, its status and authorizations are checked and the
\* CSR is validated.
FinalizeCheck(r) ==
    /\ Handles(r, "finalize")
    /\ LET out == FinalizeCheckOutcome(orders, req[r]) IN
        IF out.kind = "ok"
        THEN pc' = [pc EXCEPT ![r] = "save"] /\ UNCHANGED <<req, resp>> /\ rejected' = NoRefusal /\ call' = call /\ revocation' = revocation
        ELSE Finish(r, out.kind, out.detail)
    /\ UNCHANGED <<cache, nextNonce, nonces, acct, orders, jobs>>

\* A variant of finalize that saves the order as pending.
FinalizeStatusPending == "pending"

\* order.status = AcmeOrder.STATUS_PROCESSING
FinalizeStatus == "processing"

\* AcmeCertificate.objects.create(order=order, csr=csr), then order.save().
\* An order has at most one AcmeCertificate: a second create raises an
\* IntegrityError, which dispatch() turns into an internal server error.
FinalizeSave(r) ==
    /\ pc[r] = "save"
    /\ req[r].view = "finalize"
    /\ IF orders[req[r].o].cert # "none" THEN
            /\ Finish(r, "error", None)
            /\ UNCHANGED orders
       ELSE
            /\ orders' = [orders EXCEPT ![req[r].o].cert = "created",
                                        ![req[r].o].status = FinalizeStatus]
            /\ pc' = [pc EXCEPT ![r] = "commit"]
            /\ UNCHANGED <<req, resp>> /\ rejected' = NoRefusal /\ call' = call /\ revocation' = revocation
    /\ UNCHANGED <<cache, nextNonce, nonces, acct, jobs>>

\* transaction.on_commit(lambda: run_task(acme_issue_certificate, ...)), and
\* the response with order.status
FinalizeCommit(r) ==
    /\ pc[r] = "commit"
    /\ req[r].view = "finalize"
    /\ jobs' = [jobs EXCEPT !.issueEnq[req[r].o] = @ + 1]
    /\ Finish(r, "order", FinalizeStatus)
    /\ UNCHANGED <<cache, nextNonce, nonces, acct, orders>>

(* ------------------------ challenge handler --------------------------- *)
\* A variant of the trigger that saves the challenge as pending.
ChallengeStatusPending == "pending"

\* challenge.status = AcmeChallenge.STATUS_PROCESSING
ChallengeStatus == "processing"

\* A variant of the trigger that does not look at challenge.usable.
TriggersAlways(usable) == TRUE

\* "if challenge.usable is True": the handler saves the challenge and hands
\* it to the worker exactly in that case
Triggers(usable) == usable

\* AcmeChallengeView.acme_request: the challenge is looked up and
\* challenge.usable is read.
ChallengeCheck(r) ==
    /\ Handles(r, "challenge")
    /\ LET m == req[r] IN
        IF ~ChildFound(orders, m.key, m.o, m.i) THEN Finish(r, "unauthorized", None)
        ELSE IF Triggers(ChallengeUsable(orders[m.o].chall[m.i]))
        THEN pc' = [pc EXCEPT ![r] = "save"] /\ UNCHANGED <<req, resp>> /\ rejected' = NoRefusal /\ call' = call /\ revocation' = revocation
        ELSE Finish(r, "challenge", orders[m.o].chall[m.i])
    /\ UNCHANGED <<cache, nextNonce, nonces, acct, orders, jobs>>

\* challenge.save() with the new status
ChallengeSave(r) ==
    /\ pc[r] = "save"
    /\ req[r].view = "challenge"
    /\ orders' = [orders EXCEPT ![req[r].o].chall[req[r].i] = ChallengeStatus]
    /\ pc' = [pc EXCEPT ![r] = "commit"]
    /\ UNCHANGED <<cache, nextNonce, nonces, acct, jobs, req, resp>> /\ rejected' = NoRefusal /\ call' = call /\ revocation' = revocation

\* transaction.on_commit(lambda: run_task(acme_validate_challenge, ...)), and
\* the response with challenge.status
ChallengeCommit(r) ==
    /\ pc[r] = "commit"
    /\ req[r].view = "challenge"
    /\ jobs' = [jobs EXCEPT !.valEnq[<<req[r].o, req[r].i>>] = @ + 1]
    /\ Finish(r, "challenge", ChallengeStatus)
    /\ UNCHANGED <<cache, nextNonce, nonces, acct, orders>>

(* --------------------------- the task worker -------------------------- *)
\* The outcome of acme_validate_challenge on a challenge that is processing:
\* the challenge becomes valid or invalid, and so does its authorization if
\* it is pending; a pending order whose authorizations are all valid becomes
\* ready.
Validated(row, i, ok) ==
    LET auth == [row.auth EXCEPT ![i] = IF @ = "pending"
                                        THEN (IF ok THEN "valid" ELSE "invalid") ELSE @]
    IN [row EXCEPT
            !.chall[i] = IF ok THEN "valid" ELSE "invalid",
            !.auth = auth,
            !.status = IF @ = "pending" /\ \A j \in row.idents : auth[j] = "valid"
                       THEN "ready" ELSE @]

\* The worker runs a validation task.
RunValidate ==
    /\ \E o \in OrderIds, i \in Idents, ok \in BOOLEAN :
        /\ jobs.valRun[<<o, i>>] < jobs.valEnq[<<o, i>>]
        /\ jobs' = [jobs EXCEPT !.valRun[<<o, i>>] = @ + 1]
        /\ orders' = IF orders[o].chall[i] = "processing"
                     THEN [orders EXCEPT ![o] = Validated(orders[o], i, ok)]
                     ELSE orders
    /\ UNCHANGED <<cache, nextNonce, nonces, acct, pc, req, resp>> /\ rejected' = NoRefusal /\ call' = call /\ revocation' = revocation

\* The outcome of acme_issue_certificate on an order that is processing: the
\* order becomes valid and its certificate is stored, or it becomes invalid.
Issued(row, ok) ==
    IF ok THEN [row EXCEPT !.status = "valid", !.cert = "issued"]
    ELSE [row EXCEPT !.status = "invalid"]

\* The worker runs an issuance task.
RunIssue ==
    /\ \E o \in OrderIds, ok \in BOOLEAN :
        /\ jobs.issueRun[o] < jobs.issueEnq[o]
        /\ jobs' = [jobs EXCEPT !.issueRun[o] = @ + 1]
        /\ orders' = IF orders[o].status = "processing"
                     THEN [orders EXCEPT ![o] = Issued(orders[o], ok)]
                     ELSE orders
    /\ UNCHANGED <<cache, nextNonce, nonces, acct, pc, req, resp>> /\ rejected' = NoRefusal /\ call' = call /\ revocation' = revocation

(* ------------------------- Profile.create_cert ------------------------ *)
\* The keys of the extensions (Extension.key)
AKI == "authority_key_identifier"
CRL == "crl_distribution_points"
AIA == "authority_information_access"
IAN == "issuer_alternative_name"
SAN == "subject_alternative_name"
SKI == "subject_key_identifier"
BC == "basic_constraints"
ONC == "ocsp_no_check"
ExtKeys == {AKI, CRL, AIA, IAN, SAN, SKI, BC, ONC}

\* An extension object: its class (type), its list of values, and the two
\* lists of an AuthorityInformationAccess.  NoExt stands for a key that the
\* dict does not have, NullExt for the value None.
MkExt(type, value) == [type |-> type, value |-> value, ocsp |-> <<>>, issuers |-> <<>>]
NoExt == MkExt("missing", <<>>)
NullExt == MkExt("null", <<>>)
EmptyExts == [k \in ExtKeys |-> NoExt]

\* Common names and URLs; parse_general_name turns a string into a general
\* name or raises ValueError.
NoCN == None
Hosts == {"a.example", "b.example"}
Unparsable == {"foo bar"}
NoUrl == ""
parse_general_name(s) ==
    IF s \in Unparsable THEN [typ |-> "ValueError", val |-> s]
    ELSE IF s \in Hosts THEN [typ |-> "DNS", val |-> s]
    ELSE [typ |-> "URI", val |-> s]

\* SubjectAlternativeName.get_common_name: the bare string of the first value
get_common_name(san) == IF san.value = <<>> THEN NoCN ELSE san.value[1].val

\* A variant of dict.update that extends the lists of an extension both
\* dicts have.
DictUpdateExtend(d, u) ==
    [k \in ExtKeys |->
        IF u[k] = NoExt THEN d[k]
        ELSE IF d[k] = NoExt \/ u[k] = NullExt THEN u[k]
        ELSE [u[k] EXCEPT !.value = d[k].value \o @, !.ocsp = d[k].ocsp \o @,
                          !.issuers = d[k].issuers \o @]]

\* dict.update
DictUpdate(d, u) == [k \in ExtKeys |-> IF u[k] # NoExt THEN u[k] ELSE d[k]]

\* A variant of the filter that keeps a key whose value is None.
DropNoneNever(d) == d

\* {k: v for k, v in cert_extensions.items() if v is not None}
DropNone(d) == [k \in ExtKeys |-> IF d[k] = NullExt THEN NoExt ELSE d[k]]

\* A variant of the merge in which a value of None leaves the extension of
\* the profile in place.
MergeExtensionsKeepProfile(profile_extensions, extensions) ==
    [k \in ExtKeys |->
        IF extensions[k] \in {NoExt, NullExt} THEN profile_extensions[k] ELSE extensions[k]]

\* cert_extensions as create_cert merges it from the extensions of the
\* profile and those of the call
MergeExtensions(profile_extensions, extensions) ==
    DropNone(DictUpdate(profile_extensions, extensions))

\* dict.setdefault
SetDefault(d, k, e) == IF d[k] = NoExt THEN [d EXCEPT ![k] = e] ELSE d

\* An argument of create_cert that is None takes the value of the profile.
ToggleArgs == {"unset", "on", "off"}
Effective(arg, default) == IF arg = "unset" THEN default ELSE arg = "on"

\* A variant of a step of _update_from_ca that does not look at the toggle.
AppendFromCAAlways(d, k, field, toggle, items) ==
    IF items = <<>> THEN [err |-> None, exts |-> d]
    ELSE LET e == SetDefault(d, k, MkExt(k, <<>>)) IN
         IF e[k].type # k THEN [err |-> "AttributeError", exts |-> e]
         ELSE [err |-> None,
               exts |-> [e EXCEPT ![k] =
                            IF field = "ocsp" THEN [@ EXCEPT !.ocsp = @ \o items]
                            ELSE IF field = "issuers" THEN [@ EXCEPT !.issuers = @ \o items]
                            ELSE [@ EXCEPT !.value = @ \o items]]]

\* One step of _update_from_ca: if the toggle is on and the CA has the value,
\* the extension is created if the key is missing and the items are appended
\* to its list (value, ocsp or issuers).  An object of another class under
\* the key has no such list: AttributeError.
AppendFromCA(d, k, field, toggle, items) ==
    IF ~toggle \/ items = <<>> THEN [err |-> None, exts |-> d]
    ELSE LET e == SetDefault(d, k, MkExt(k, <<>>)) IN
         IF e[k].type # k THEN [err |-> "AttributeError", exts |-> e]
         ELSE [err |-> None,
               exts |-> [e EXCEPT ![k] =
                            IF field = "ocsp" THEN [@ EXCEPT !.ocsp = @ \o items]
                            ELSE IF field = "issuers" THEN [@ EXCEPT !.issuers = @ \o items]
                            ELSE [@ EXCEPT !.value = @ \o items]]]

\* The value of a URL of the CA as the list of names it adds
UrlItems(url) == IF url = NoUrl THEN <<>> ELSE <<parse_general_name(url)>>

\* ca.get_authority_key_identifier_extension()
CaAKI == MkExt(AKI, <<[typ |-> "keyid", val |-> "ca"]>>)

\* Profile._update_from_ca: the first error stops it
update_from_ca(ca, d, add_crl_url, add_ocsp_url, add_issuer_url, add_issuer_alternative_name) ==
    LET s0 == SetDefault(d, AKI, CaAKI)
        s1 == AppendFromCA(s0, CRL, "value", add_crl_url, UrlItems(ca.crl_url))
        s2 == IF s1.err # None THEN s1
              ELSE AppendFromCA(s1.exts, AIA, "ocsp", add_ocsp_url, UrlItems(ca.ocsp_url))
        s3 == IF s2.err # None THEN s2
              ELSE AppendFromCA(s2.exts, AIA, "issuers", add_issuer_url, UrlItems(ca.issuer_url))
        s4 == IF s3.err # None THEN s3
              ELSE AppendFromCA(s3.exts, IAN, "value", add_issuer_alternative_name,
                                ca.issuer_alt_name)
    IN s4

\* cert_subject.update(subject), for the CommonName
SubjectUpdate(profile_cn, cn) == IF cn # NoCN THEN cn ELSE profile_cn

\* A variant of _update_san_from_cn that appends the CommonName without
\* looking whether the extension has it.
update_san_from_cn_append(cn_in_san, cn, d) ==
    IF cn # NoCN /\ cn_in_san THEN
        IF parse_general_name(cn).typ = "ValueError"
        THEN [err |-> "ValueError", exts |-> d, cn |-> cn]
        ELSE LET e == SetDefault(d, SAN, MkExt(SAN, <<>>)) IN
             [err |-> None, cn |-> cn,
              exts |-> [e EXCEPT ![SAN].value = Append(@, parse_general_name(cn))]]
    ELSE IF cn = NoCN /\ d[SAN] # NoExt THEN
        [err |-> None, exts |-> d, cn |-> get_common_name(d[SAN])]
    ELSE [err |-> None, exts |-> d, cn |-> cn]

\* Profile._update_san_from_cn: the extensions and the CommonName after it
update_san_from_cn(cn_in_san, cn, d) ==
    IF cn # NoCN /\ cn_in_san THEN
        IF parse_general_name(cn).typ = "ValueError"
        THEN [err |-> "ValueError", exts |-> d, cn |-> cn]
        ELSE LET e == SetDefault(d, SAN, MkExt(SAN, <<>>))
                 common_name == parse_general_name(cn) IN
             [err |-> None, cn |-> cn,
              exts |-> IF \E i \in 1..Len(e[SAN].value) : e[SAN].value[i] = common_name
                       THEN e
                       ELSE [e EXCEPT ![SAN].value = Append(@, common_name)]]
    ELSE IF cn = NoCN /\ d[SAN] # NoExt THEN
        [err |-> None, exts |-> d, cn |-> get_common_name(d[SAN])]
    ELSE [err |-> None, exts |-> d, cn |-> cn]

\* A variant in which create_cert works on copies of the extensions that
\* were passed in.
ArgumentCopied(extensions, d, k) == extensions[k]

\* The extensions argument as the check after _update_san_from_cn sees it:
\* an object that was passed in is the object cert_extensions holds, with
\* everything that was appended to it.
ArgumentNow(extensions, d, k) ==
    IF extensions[k] \in {NoExt, NullExt} THEN extensions[k] ELSE d[k]

\* "if not subject.get('CN') and (SAN.key not in extensions or not
\* extensions[SAN.key].value)": subject and extensions are the arguments of
\* the call; None has no attribute value.
NameCheck(cn, extensions, cert_cn, d) ==
    IF cn # NoCN THEN None
    ELSE IF extensions[SAN] = NoExt THEN "ValueError"
    ELSE IF extensions[SAN] = NullExt THEN "AttributeError"
    ELSE IF ArgumentNow(extensions, d, SAN).value = <<>> THEN "ValueError"
    ELSE None

\* The extension classes of the certificate the builder is given: those of
\* cert_extensions, and a SubjectKeyIdentifier if that key is missing
BuilderTypes(d) ==
    [k \in ExtKeys |->
        Cardinality({j \in ExtKeys : d[j] # NoExt /\ d[j].type = k})
        + (IF k = SKI /\ d[SKI] = NoExt THEN 1 ELSE 0)]

\* builder.add_extension raises ValueError for an extension it already has
BuildError(d) == IF \E k \in ExtKeys : BuilderTypes(d)[k] > 1 THEN "ValueError" ELSE None

\* The extensions of the signed certificate, by class
CertificateExtensions(d) == {k \in ExtKeys : BuilderTypes(d)[k] > 0}

\* What pre_issue_cert.send passes to the receivers: subject and extensions
Sent(cn, d) == [subject_cn |-> cn, extensions |-> d]
NoSent == Sent(NoCN, EmptyExts)

\* No call of create_cert is running.
NoCall == [pc |-> None]

\* The call the calls of the model are variations of: a profile without
\* extensions of its own, a CA with every URL set, the CommonName as the
\* subject and no other argument.
BaseProfile ==
    [subject_cn |-> NoCN,
     extensions |-> [EmptyExts EXCEPT ![BC] = MkExt(BC, <<>>)],
     cn_in_san |-> TRUE,
     add_crl_url |-> TRUE, add_ocsp_url |-> TRUE, add_issuer_url |-> TRUE,
     add_issuer_alternative_name |-> TRUE]
BaseCA ==
    [crl_url |-> "http://crl.ca", ocsp_url |-> "http://ocsp.ca",
     issuer_url |-> "http://issuer.ca",
     issuer_alt_name |-> <<[typ |-> "URI", val |-> "http://ian.ca"]>>]
BaseArgs ==
    [subject_cn |-> "a.example", extensions |-> EmptyExts, cn_in_san |-> "unset",
     add_crl_url |-> "unset", add_ocsp_url |-> "unset", add_issuer_url |-> "unset",
     add_issuer_alternative_name |-> "unset"]
BaseCall ==
    [pc |-> "merge", prof |-> BaseProfile, ca |-> BaseCA, args |-> BaseArgs,
     hook_raises |-> FALSE,
     cert_extensions |-> EmptyExts, cert_cn |-> NoCN, err |-> None,
     hooks |-> 0, sent |-> NoSent, signed |-> FALSE, cert |-> {},
     round |-> 1, first |-> [extensions |-> EmptyExts, cert |-> {}]]

\* An extension of class k with one value
ExtOf(k, s) ==
    IF k = AIA
    THEN [MkExt(AIA, <<>>) EXCEPT !.ocsp = <<[typ |-> "URI", val |-> s]>>,
                                  !.issuers = <<[typ |-> "URI", val |-> s]>>]
    ELSE IF k = SAN THEN MkExt(SAN, <<[typ |-> "DNS", val |-> s]>>)
    ELSE MkExt(k, <<[typ |-> "URI", val |-> s]>>)

\* The extensions a call can pass for key k: None, one of its class, an
\* empty one, and a SubjectKeyIdentifier under another key.
PassedExts(k) ==
    {NullExt, MkExt(k, <<>>)}
    \cup {ExtOf(k, s) : s \in IF k = SAN THEN Hosts ELSE {"http://call"}}
    \cup (IF k \in {CRL, AIA, IAN} THEN {ExtOf(SKI, "ski")} ELSE {})

\* The extensions a profile can have for key k
ProfileExts(k) == {ExtOf(k, s) : s \in IF k = SAN THEN {"b.example"} ELSE {"http://profile"}}

Toggles == {"add_crl_url", "add_ocsp_url", "add_issuer_url", "add_issuer_alternative_name"}
SetToggle(r, t, v) ==
    IF t = "add_crl_url" THEN [r EXCEPT !.add_crl_url = v]
    ELSE IF t = "add_ocsp_url" THEN [r EXCEPT !.add_ocsp_url = v]
    ELSE IF t = "add_issuer_url" THEN [r EXCEPT !.add_issuer_url = v]
    ELSE [r EXCEPT !.add_issuer_alternative_name = v]
GetToggle(r, t) ==
    IF t = "add_crl_url" THEN r.add_crl_url
    ELSE IF t = "add_ocsp_url" THEN r.add_ocsp_url
    ELSE IF t = "add_issuer_url" THEN r.add_issuer_url
    ELSE r.add_issuer_alternative_name

\* The calls that differ from c in one argument, one setting of the profile
\* or one value of the CA
Vary(c) ==
    {c}
    \cup UNION {{[c EXCEPT !.args.extensions[k] = e] : e \in PassedExts(k)} : k \in ExtKeys}
    \cup UNION {{[c EXCEPT !.prof.extensions[k] = e] : e \in ProfileExts(k)} :
                    k \in ExtKeys \ {BC}}
    \cup {[c EXCEPT !.args = SetToggle(@, t, v)] : t \in Toggles, v \in {"on", "off"}}
    \cup {[c EXCEPT !.prof = SetToggle(@, t, FALSE)] : t \in Toggles}
    \cup {[c EXCEPT !.ca.crl_url = NoUrl], [c EXCEPT !.ca.ocsp_url = NoUrl],
          [c EXCEPT !.ca.issuer_url = NoUrl], [c EXCEPT !.ca.issuer_alt_name = <<>>]}
    \cup {[c EXCEPT !.args.subject_cn = s] : s \in {NoCN, "b.example"} \cup Unparsable}
    \cup {[c EXCEPT !.prof.subject_cn = "b.example"]}
    \cup {[c EXCEPT !.args.cn_in_san = v] : v \in {"on", "off"}}
    \cup {[c EXCEPT !.prof.cn_in_san = FALSE], [c EXCEPT !.hook_raises = TRUE]}

\* The running call is a call reached from c by n variations at most.
RECURSIVE Calls(_, _)
Calls(c, n) == IF n = 0 THEN call = c ELSE \E d \in Vary(c) : Calls(d, n - 1)

\* The toggle t of the running call: the argument, else the profile's value
Toggle(c, t) == Effective(GetToggle(c.args, t), GetToggle(c.prof, t))
CnInSan(c) == Effective(c.args.cn_in_san, c.prof.cn_in_san)

ViewsUnchanged ==
    UNCHANGED <<cache, nextNonce, nonces, acct, orders, jobs, pc, req, resp, rejected,
                revocation>>

\* create_cert raises
Raise(c, err) == [c EXCEPT !.pc = "raised", !.err = err]

\* cert_extensions is merged from the profile and the extensions argument
CreateCertMerge ==
    /\ call.pc = "merge"
    /\ call' = [call EXCEPT
                    !.pc = "update_from_ca",
                    !.cert_extensions =
                        MergeExtensions(call.prof.extensions, call.args.extensions)]
    /\ ViewsUnchanged

\* self._update_from_ca(...), then cert_subject.update(subject)
CreateCertFromCA ==
    /\ call.pc = "update_from_ca"
    /\ LET out == update_from_ca(call.ca, call.cert_extensions,
                                 Toggle(call, "add_crl_url"), Toggle(call, "add_ocsp_url"),
                                 Toggle(call, "add_issuer_url"),
                                 Toggle(call, "add_issuer_alternative_name")) IN
        call' = IF out.err # None THEN Raise(call, out.err)
                ELSE [call EXCEPT
                        !.pc = "update_san_from_cn",
                        !.cert_extensions = out.exts,
                        !.cert_cn = SubjectUpdate(call.prof.subject_cn, call.args.subject_cn)]
    /\ ViewsUnchanged

\* self._update_san_from_cn(cn_in_san, subject=cert_subject, extensions=cert_extensions)
CreateCertSanFromCN ==
    /\ call.pc = "update_san_from_cn"
    /\ LET out == update_san_from_cn(CnInSan(call), call.cert_cn, call.cert_extensions) IN
        call' = IF out.err # None THEN Raise(call, out.err)
                ELSE [call EXCEPT !.pc = "check", !.cert_extensions = out.exts,
                                  !.cert_cn = out.cn]
    /\ ViewsUnchanged

\* The check that the certificate names a CN or a subjectAlternativeName
CreateCertCheck ==
    /\ call.pc = "check"
    /\ LET err == NameCheck(call.args.subject_cn, call.args.extensions,
                            call.cert_cn, call.cert_extensions) IN
        call' = IF err # None THEN Raise(call, err)
                ELSE [call EXCEPT !.pc = "pre_issue_cert"]
    /\ ViewsUnchanged

\* A variant of the hook that sends the signal as send_robust does: the
\* exception of a receiver is caught and the call goes on.
CreateCertHookRobust ==
    /\ call.pc = "pre_issue_cert"
    /\ call' = [call EXCEPT !.pc = "sign", !.hooks = @ + 1,
                            !.sent = Sent(call.cert_cn, call.cert_extensions)]
    /\ ViewsUnchanged

\* pre_issue_cert.send(...): Signal.send calls the receivers one by one and
\* lets an exception of a receiver through
CreateCertHook ==
    /\ call.pc = "pre_issue_cert"
    /\ call' = IF call.hook_raises
               THEN [Raise(call, "ReceiverError") EXCEPT
                        !.hooks = @ + 1,
                        !.sent = Sent(call.cert_cn, call.cert_extensions)]
               ELSE [call EXCEPT !.pc = "sign", !.hooks = @ + 1,
                                 !.sent = Sent(call.cert_cn, call.cert_extensions)]
    /\ ViewsUnchanged

\* The builder is given the extensions and signs the certificate.
CreateCertSign ==
    /\ call.pc = "sign"
    /\ call' = IF BuildError(call.cert_extensions) # None
               THEN Raise(call, BuildError(call.cert_extensions))
               ELSE [call EXCEPT !.pc = "returned", !.signed = TRUE,
                                 !.cert = CertificateExtensions(call.cert_extensions)]
    /\ ViewsUnchanged

\* The caller calls create_cert once more with the same profile, CA and
\* arguments: the extension objects it passes are the ones it passed
\* before, as the first call left them.
CreateCertAgain ==
    /\ call.pc = "returned"
    /\ call.round = 1
    /\ call' = [call EXCEPT
                    !.pc = "merge", !.round = 2,
                    !.first = [extensions |-> call.cert_extensions, cert |-> call.cert],
                    !.args.extensions =
                        [k \in ExtKeys |->
                            ArgumentNow(call.args.extensions, call.cert_extensions, k)],
                    !.cert_extensions = EmptyExts, !.cert_cn = NoCN,
                    !.hooks = 0, !.sent = NoSent, !.signed = FALSE, !.cert = {}]
    /\ ViewsUnchanged

(* ------------------- the ACME revocation resource --------------------- *)
\* The certificates issued through ACME, each for an order of account "k1"
CertIds == {"c1", "c2"}
UnknownSerial == "unknown"

\* A Certificate row: revoked and revoked_reason
Unrevoked == [revoked |-> FALSE, revoked_reason |-> ""]
Revoked(reason) == [revoked |-> TRUE, revoked_reason |-> reason]

\* The reason codes a request sends: none, keyCompromise, affiliationChanged
\* and a code that is no revocation reason
NoReason == -1
SentReasons == {NoReason, 1, 3, 99}
ReasonFlags(code) ==
    IF code \in {NoReason, 0} THEN "unspecified"
    ELSE IF code = 1 THEN "key_compromise"
    ELSE IF code = 3 THEN "affiliation_changed"
    ELSE "unsupported"

\* Who signed the request: the account of the certificate's order, another
\* account with valid authorizations for the names of the certificate,
\* another account without them, the key of the certificate (a JWK), or
\* the key of another certificate (a JWK)
Signers == {"owner", "authorized", "unauthorized", "certificate", "other-certificate"}

\* A revocation request: the serial of the certificate in the message,
\* whether that certificate is the one of the stored record, the reason code
\* and the signer
RevocationRequests ==
    [serial : CertIds \cup {UnknownSerial}, genuine : BOOLEAN,
     reason : SentReasons, signer : Signers]

NoOutcome == [status |-> None, typ |-> None, message |-> None]
Accepted == [status |-> "ok", typ |-> None, message |-> None]
RevocationRefused(status, typ, message) == [status |-> status, typ |-> typ, message |-> message]

NoRevocations ==
    [certs |-> [c \in CertIds |-> Unrevoked],
     request |-> [serial |-> UnknownSerial, genuine |-> FALSE, reason |-> NoReason,
                  signer |-> "owner"],
     out |-> NoOutcome]

\* A variant of the view that does not look whether the certificate is
\* revoked already.
RevocationOutcomeAgain(certs, m) ==
    IF m.serial = UnknownSerial
    THEN RevocationRefused("unauthorized", "unauthorized", "Certificate not found.")
    ELSE IF ~m.genuine
    THEN RevocationRefused("unauthorized", "unauthorized", "Certificate does not match records.")
    ELSE IF m.signer = "other-certificate"
    THEN RevocationRefused("unauthorized", "unauthorized",
                           "Request signed by the wrong certificate.")
    ELSE IF m.signer = "unauthorized"
    THEN RevocationRefused("unauthorized", "unauthorized",
                           "Account does not hold necessary authorizations.")
    ELSE IF ReasonFlags(m.reason) = "unsupported"
    THEN RevocationRefused("malformed", "badRevocationReason", "Unsupported revocation reason.")
    ELSE Accepted

\* The response of the revocation view to the message m: the certificate is
\* looked up by its serial and compared with the stored record, a revoked
\* certificate is refused as alreadyRevoked, then the signer and the reason
\* code are checked.
RevocationOutcome(certs, m) ==
    IF m.serial = UnknownSerial
    THEN RevocationRefused("unauthorized", "unauthorized", "Certificate not found.")
    ELSE IF ~m.genuine
    THEN RevocationRefused("unauthorized", "unauthorized", "Certificate does not match records.")
    ELSE IF certs[m.serial].revoked
    THEN RevocationRefused("malformed", "alreadyRevoked", "Certificate was already revoked.")
    ELSE IF m.signer = "other-certificate"
    THEN RevocationRefused("unauthorized", "unauthorized",
                           "Request signed by the wrong certificate.")
    ELSE IF m.signer = "unauthorized"
    THEN RevocationRefused("unauthorized", "unauthorized",
                           "Account does not hold necessary authorizations.")
    ELSE IF ReasonFlags(m.reason) = "unsupported"
    THEN RevocationRefused("malformed", "badRevocationReason", "Unsupported revocation reason.")
    ELSE Accepted

\* The revocation view handles one request: an accepted request revokes the
\* certificate with the reason of the request, a refused one writes nothing.
RevokeCert ==
    /\ \E m \in RevocationRequests :
        LET out == RevocationOutcome(revocation.certs, m) IN
        revocation' =
            [certs |-> IF out = Accepted
                       THEN [revocation.certs EXCEPT
                                ![m.serial] = Revoked(ReasonFlags(m.reason))]
                       ELSE revocation.certs,
             request |-> m,
             out |-> out]
    /\ UNCHANGED <<cache, nextNonce, nonces, acct, orders, jobs, pc, req, resp, rejected, call>>

(* ------------------------------- Next --------------------------------- *)
Refuse == \E r \in Slots : BadPayload(r)
Register == \E r \in Slots : NewAccount(r)
UpdateRead == \E r \in Slots : AccountRead(r)
UpdateWrite == \E r \in Slots : AccountWrite(r)
Order == \E r \in Slots : NewOrder(r)
View == \E r \in Slots : ViewResource(r)
FinalizeRead == \E r \in Slots : FinalizeCheck(r)
FinalizeWrite == \E r \in Slots : FinalizeSave(r)
FinalizeDone == \E r \in Slots : FinalizeCommit(r)
TriggerRead == \E r \in Slots : ChallengeCheck(r)
TriggerWrite == \E r \in Slots : ChallengeSave(r)
TriggerDone == \E r \in Slots : ChallengeCommit(r)
Answer == \E r \in Slots : Respond(r)

(* The resource life cycle: accounts exist, clients send well-formed       *)
(* envelopes to the views that take a key-id, the worker runs the tasks.   *)
WellFormed == {e \in Envelopes : NumDefects(e) = 0}
ResourceViews == {v \in Views : ~RequiresKey(v)}

Registered == [status |-> "valid", contact |-> <<GoodContact("a")>>, rows |-> 1]

\* The order rows the life cycle starts from: an order that was just
\* created, and one whose challenges the worker has validated.
PendingRow(k, ids) == NewOrderRow(k, ids)
ReadyRow(k, ids) ==
    [PendingRow(k, ids) EXCEPT
        !.status = "ready",
        !.auth = [i \in Idents |-> IF i \in ids THEN "valid" ELSE None],
        !.chall = [i \in Idents |-> IF i \in ids THEN "valid" ELSE None]]
ValidationJobs(row) ==
    [NoJobs EXCEPT
        !.valEnq = [c \in OrderIds \X Idents |->
                        IF c[1] = 1 /\ c[2] \in row.idents /\ row.status = "ready"
                        THEN 1 ELSE 0],
        !.valRun = [c \in OrderIds \X Idents |->
                        IF c[1] = 1 /\ c[2] \in row.idents /\ row.status = "ready"
                        THEN 1 ELSE 0]]
StartRows ==
    {NoOrder} \cup {PendingRow("k1", ids) : ids \in {{"a.example"}, Idents}}
    \cup {ReadyRow("k1", ids) : ids \in {{"a.example"}, Idents}}

Init ==
    /\ cache = [key \in CacheKeys |-> Absent]
    /\ nextNonce = 0
    /\ nonces = [key \in CacheKeys |-> NoLog]
    /\ acct = [k \in Keys |-> Registered]
    /\ \E row \in StartRows :
        /\ orders = [o \in OrderIds |-> IF o = 1 THEN row ELSE NoOrder]
        /\ jobs = ValidationJobs(row)
    /\ pc = [r \in Slots |-> "idle"]
    /\ req = [r \in Slots |-> NoReq]
    /\ resp = [r \in Slots |-> NoResp]
    /\ rejected = NoRefusal
    /\ call = NoCall
    /\ revocation = NoRevocations

NewNonce == NewNonceOn(UsableCAs)
Request == \E r \in Slots : Post(r, WellFormed, ResourceViews, "none")

Next ==
    \/ NewNonce \/ Request \/ Refuse \/ UpdateRead \/ UpdateWrite \/ Order
    \/ View \/ FinalizeRead \/ FinalizeWrite \/ FinalizeDone
    \/ TriggerRead \/ TriggerWrite \/ TriggerDone \/ Answer
    \/ RunValidate \/ RunIssue

Spec == Init /\ [][Next]_vars

(* Authentication: the database is empty, clients send envelopes with     *)
(* defects under any serial, nonces time out.                             *)
AuthViews == {"new-account", "account", "order"}

InitAuth ==
    /\ cache = [key \in CacheKeys |-> Absent]
    /\ nextNonce = 0
    /\ nonces = [key \in CacheKeys |-> NoLog]
    /\ acct = [k \in Keys |-> NoAccount]
    /\ orders = [o \in OrderIds |-> NoOrder]
    /\ jobs = NoJobs
    /\ pc = [r \in Slots |-> "idle"]
    /\ req = [r \in Slots |-> NoReq]
    /\ resp = [r \in Slots |-> NoResp]
    /\ rejected = NoRefusal
    /\ call = NoCall
    /\ revocation = NoRevocations

NewNonceAny == NewNonceOn(Serials)
RequestAuth == \E r \in Slots : Post(r, SentEnvelopes, AuthViews, "check")

NextAuth ==
    \/ NewNonceAny \/ Expire \/ RequestAuth \/ Refuse \/ Register
    \/ UpdateRead \/ UpdateWrite \/ View \/ Answer

SpecAuth == InitAuth /\ [][NextAuth]_vars

(* --------------------- specification of the nonces -------------------- *)
\* The nonce store under requests with any defect, each carrying any nonce,
\* one request at a time: one key has no account yet, the account of the
\* other one is deactivated.
NonceViews == {"new-account", "order"}

InitNonce ==
    /\ cache = [key \in CacheKeys |-> Absent]
    /\ nextNonce = 0
    /\ nonces = [key \in CacheKeys |-> NoLog]
    /\ acct = [k \in Keys |-> IF k = "k1" THEN NoAccount
                                ELSE [Registered EXCEPT !.status = "deactivated"]]
    /\ orders = [o \in OrderIds |-> NoOrder]
    /\ jobs = NoJobs
    /\ pc = [r \in Slots |-> "idle"]
    /\ req = [r \in Slots |-> NoReq]
    /\ resp = [r \in Slots |-> NoResp]
    /\ rejected = NoRefusal
    /\ call = NoCall
    /\ revocation = NoRevocations

RequestNonce == Post("r1", SentEnvelopes, NonceViews, "nonce")

NextNonce ==
    \/ NewNonceAny \/ Expire \/ RequestNonce \/ Refuse \/ Register \/ View \/ Answer

SpecNonce == InitNonce /\ [][NextNonce]_vars

(* A handler at work: one request has passed post() and its handler runs,  *)
(* with any message its view can receive, for any slug, against any of the *)
(* order rows.                                                             *)
HandlerViews == ResourceViews \ {"account"}

\* A slug that no row has
NoSlug == 0
Slugs == OrderIds \cup {NoSlug}

\* timezone.now() of the new-order requests, and the times a message can name
Now == 2
Times == (0..(Now + ACME_MAX_CERT_VALIDITY + 1)) \cup {NoTime}

\* Every request a view can be sent.
AllInputs(v) ==
    IF v = "finalize" THEN
        {[NoReq EXCEPT !.body = "msg", !.o = o, !.csr = c] : o \in Slugs, c \in CSRs}
        \cup {[NoReq EXCEPT !.body = "garbage"]}
    ELSE IF v = "new-order" THEN
        {[NoReq EXCEPT !.body = "msg", !.idents = ids, !.now = Now, !.nb = nb, !.na = na] :
            ids \in SUBSET Idents, nb \in Times, na \in Times}
        \cup {[NoReq EXCEPT !.body = "garbage"]}
    ELSE IF v \in {"order", "cert"} THEN
        {[NoReq EXCEPT !.o = o, !.body = b] : o \in Slugs, b \in {"empty", "msg"}}
    ELSE
        {[NoReq EXCEPT !.o = o, !.i = i, !.body = b] :
            o \in Slugs, i \in Idents, b \in {"empty", "msg"}}

\* The order rows a handler can find: those of the life cycle, and an order
\* whose certificate was issued.
HandlerRows == StartRows \cup {Issued(ReadyRow("k1", {"a.example"}), TRUE)}

\* The envelope of a request that post() accepts for the account of key k
GoodEnvelope(k) ==
    [ctype |-> TRUE, parse |-> TRUE, jwk |-> None, kid |-> k, serial |-> "ca1",
     nsigs |-> 1, alg |-> TRUE, sig |-> k]

InitHandler ==
    /\ cache = [key \in CacheKeys |-> IF key = <<"ca1", 1>> THEN 1 ELSE Absent]
    /\ nextNonce = 1
    /\ nonces = [key \in CacheKeys |->
                    IF key = <<"ca1", 1>>
                    THEN [issued |-> TRUE, accepted |-> 1, refused |-> FALSE]
                    ELSE NoLog]
    /\ acct = [k \in Keys |-> Registered]
    /\ \E row \in HandlerRows, v \in HandlerViews, k \in Keys : \E m \in AllInputs(v) :
        /\ v = "new-order" => row = NoOrder
        /\ orders = [o \in OrderIds |-> IF o = 1 THEN row ELSE NoOrder]
        /\ jobs = ValidationJobs(row)
        /\ req = [r \in Slots |->
                    IF r = "r1"
                    THEN [m EXCEPT !.view = v, !.serial = "ca1", !.key = k,
                                   !.env = GoodEnvelope(k), !.url = TRUE]
                    ELSE NoReq]
    /\ pc = [r \in Slots |-> IF r = "r1" THEN "handler" ELSE "idle"]
    /\ resp = [r \in Slots |-> NoResp]
    /\ rejected = NoRefusal
    /\ call = NoCall
    /\ revocation = NoRevocations

NextHandler ==
    \/ Refuse \/ Order \/ View \/ FinalizeRead \/ FinalizeWrite \/ FinalizeDone
    \/ TriggerRead \/ TriggerWrite \/ TriggerDone \/ Answer

SpecHandler == InitHandler /\ [][NextHandler]_vars

(* -------------------- specification of create_cert ------------------- *)
\* One call of Profile.create_cert, for every call that differs from the
\* base call in at most MaxVariations places
InitProfile ==
    /\ cache = [key \in CacheKeys |-> Absent]
    /\ nextNonce = 0
    /\ nonces = [key \in CacheKeys |-> NoLog]
    /\ acct = [k \in Keys |-> NoAccount]
    /\ orders = [o \in OrderIds |-> NoOrder]
    /\ jobs = NoJobs
    /\ pc = [r \in Slots |-> "idle"]
    /\ req = [r \in Slots |-> NoReq]
    /\ resp = [r \in Slots |-> NoResp]
    /\ rejected = NoRefusal
    /\ Calls(BaseCall, MaxVariations)
    /\ revocation = NoRevocations

NextProfile ==
    \/ CreateCertMerge \/ CreateCertFromCA \/ CreateCertSanFromCN
    \/ CreateCertCheck \/ CreateCertHook \/ CreateCertSign \/ CreateCertAgain

SpecProfile == InitProfile /\ [][NextProfile]_vars

(* Revocation: requests of any shape reach the revocation view, one after  *)
(* the other.                                                               *)
InitRevoke ==
    /\ cache = [key \in CacheKeys |-> Absent]
    /\ nextNonce = 0
    /\ nonces = [key \in CacheKeys |-> NoLog]
    /\ acct = [k \in Keys |-> NoAccount]
    /\ orders = [o \in OrderIds |-> NoOrder]
    /\ jobs = NoJobs
    /\ pc = [r \in Slots |-> "idle"]
    /\ req = [r \in Slots |-> NoReq]
    /\ resp = [r \in Slots |-> NoResp]
    /\ rejected = NoRefusal
    /\ call = NoCall
    /\ revocation = NoRevocations

NextRevoke == RevokeCert

SpecRevoke == InitRevoke /\ [][NextRevoke]_vars

(* ======================= properties of the views ====================== *)
\* C1 (as the code has it): of the validate_nonce calls for a nonce that
\* get_nonce issued, at most one returns True, whatever the interleaving; and
\* calls were made without any of them returning True only if the cache entry
\* of the nonce had timed out before the first of them.
C1_AtMostOneTrue ==
    \A key \in CacheKeys :
        /\ nonces[key].accepted <= 1
        /\ (nonces[key].refused /\ nonces[key].accepted = 0) => cache[key] = Absent

\* C1 as stated: exactly one of the validate_nonce calls made for an issued
\* nonce returns True.
C1_ExactlyOneTrue ==
    \A key \in CacheKeys :
        (nonces[key].issued /\ (nonces[key].accepted > 0 \/ nonces[key].refused))
            => nonces[key].accepted = 1

\* A nonce was accepted once and a later call for it returned False.
C1_Witness ==
    \E key \in CacheKeys :
        nonces[key].accepted = 1 /\ nonces[key].refused /\ cache[key] = 2

\* C2: a finalize request that finds its order in a status other than ready
\* is answered Forbidden orderNotReady and changes neither the order nor the
\* jobs; an order moves to processing only from ready, and an issuance job is
\* only enqueued for an order that finalize moved to processing.
C2_FinalizeOnlyWhenReady ==
    [][/\ \A r \in Slots :
            (/\ pc[r] = "handler" /\ pc'[r] # "handler"
             /\ req[r].view = "finalize" /\ req[r].body = "msg"
             /\ OrderFound(orders, req[r].key, req[r].o)
             /\ orders[req[r].o].status # "ready")
            => /\ pc'[r] = "respond"
               /\ resp'[r] = Reply("forbidden", "orderNotReady")
               /\ orders' = orders /\ jobs' = jobs
       /\ \A o \in OrderIds :
            /\ (orders'[o].status = "processing" /\ orders[o].status # "processing")
                => orders[o].status = "ready"
            /\ jobs'.issueEnq[o] # jobs.issueEnq[o]
                => (orders[o].status = "processing" /\ orders[o].cert = "created")
      ]_vars

\* An order whose certificate was issued is finalized again and the request
\* is refused.
C2_Witness ==
    \E r \in Slots :
        /\ pc[r] = "respond" /\ req[r].view = "finalize"
        /\ resp[r] = Reply("forbidden", "orderNotReady")
        /\ orders[req[r].o].status = "valid" /\ orders[req[r].o].cert = "issued"

\* C3: no step moves an existing order to a status that comes earlier in
\* pending, ready, processing, valid, invalid.
C3_OrderStatusMonotonic ==
    [][\A o \in OrderIds :
            orders[o].status # "absent"
            => /\ orders'[o].status # "absent"
               /\ OrderRank(orders'[o].status) >= OrderRank(orders[o].status)
      ]_vars

\* An order went from ready through processing to invalid.
C3_Witness ==
    \E o \in OrderIds :
        orders[o].status = "invalid" /\ jobs.issueRun[o] = 1 /\ orders[o].cert = "created"

\* The envelopes that are well-formed but for their signature, which is not
\* by the key they present
WrongSignature ==
    {e \in {[ctype |-> TRUE, parse |-> TRUE, jwk |-> j, kid |-> k, serial |-> s,
              nsigs |-> 1, alg |-> TRUE, sig |-> g] :
                j \in Keys \cup {None}, k \in Keys \cup {None}, s \in UsableCAs, g \in Keys} :
        /\ (e.jwk = None) # (e.kid = None)
        /\ e.sig # PresentedKey(e)}

\* C4: a request enters its handler only if its content type is right, its
\* JWS parses, the CA and the signer are resolved, the signature is by the
\* resolved key, validate_nonce returned True for its nonce and its url
\* matches; accounts, orders and jobs change only while a handler runs; and a
\* request whose signature is not by the key it presents is refused, as
\* Malformed if it would pass every check before the nonce with the right
\* signature.
C4_HandlerOnlyAfterChecks ==
    [][/\ \A r \in Slots :
            (pc[r] = "idle" /\ pc'[r] # "idle")
            => LET m == req'[r] IN
               /\ pc'[r] = "handler"
               /\ m.env.ctype /\ m.env.parse
               /\ m.serial \in UsableCAs /\ m.env.serial = m.serial
               /\ (m.env.jwk = None) # (m.env.kid = None)
               /\ m.key \in Keys /\ m.key \in {m.env.jwk, m.env.kid}
               /\ m.env.kid # None => acct[m.key].status = "valid"
               /\ m.env.nsigs = 1 /\ m.env.alg
               /\ m.env.sig = m.key
               /\ \E n \in NonceIds :
                    /\ cache[<<m.serial, n>>] = 0 /\ cache'[<<m.serial, n>>] = 1
                    /\ nonces'[<<m.serial, n>>].accepted = 1
               /\ m.url
       /\ (acct' # acct \/ orders' # orders \/ jobs' # jobs)
            => \E r \in Slots : pc[r] \in {"handler", "save", "commit"}
       /\ rejected' # NoRefusal => (pc' = pc /\ acct' = acct /\ orders' = orders /\ jobs' = jobs)
       /\ \A e \in WrongSignature, rk \in BOOLEAN :
            /\ PreNonce(e, rk, acct) # "ok"
            /\ PreNonce([e EXCEPT !.sig = PresentedKey(e)], rk, acct) = "ok"
                => ErrorKind(PreNonce(e, rk, acct)) = "malformed"
      ]_vars

\* A request with a wrong signature was just refused while another request,
\* which passed every check, is in its handler.
C4_Witness ==
    rejected.check = "signature" /\ \E r \in Slots : pc[r] = "handler"

\* C5: once validate_nonce has returned True for a nonce, no step, be it a
\* get_nonce, a validate_nonce or the time-out of a cache entry, is followed
\* by another True for it.
C5_UsedNeverValidatesAgain ==
    [][\A key \in CacheKeys :
            nonces[key].accepted >= 1 => nonces'[key].accepted = nonces[key].accepted
      ]_vars

\* A used nonce whose cache entry timed out was presented again and refused.
C5_Witness ==
    \E key \in CacheKeys :
        nonces[key].accepted = 1 /\ nonces[key].refused /\ cache[key] = Absent

\* C6 as stated: at most one issuance job is enqueued for an order, and a
\* finalize request that finds its order and is not accepted is answered
\* Forbidden orderNotReady or, for its CSR, BadCSR.
C6_OneFinalizeAccepted ==
    /\ \A o \in OrderIds : jobs.issueEnq[o] <= 1
    /\ \A r \in Slots :
        (pc[r] = "respond" /\ req[r].view = "finalize" /\ req[r].body = "msg")
        => resp[r].kind \in {"order", "forbidden", "badCSR", "unauthorized"}

\* C7: a trigger that finds its challenge pending goes on to save it as
\* processing and to enqueue one validation job; a trigger that finds it
\* processing, valid or invalid answers with that status and changes neither
\* the challenge nor the jobs.
C7_TriggerIdempotent ==
    [][\A r \in Slots :
        LET m == req[r]
            c == <<m.o, m.i>> IN
        /\ (/\ pc[r] = "handler" /\ pc'[r] # "handler" /\ m.view = "challenge"
            /\ ChildFound(orders, m.key, m.o, m.i))
           => IF orders[m.o].chall[m.i] = "pending"
              THEN pc'[r] = "save" /\ orders' = orders /\ jobs' = jobs
              ELSE /\ pc'[r] = "respond"
                   /\ resp'[r] = Reply("challenge", orders[m.o].chall[m.i])
                   /\ orders' = orders /\ jobs' = jobs
        /\ (pc[r] = "save" /\ pc'[r] # "save" /\ m.view = "challenge")
           => /\ pc'[r] = "commit"
              /\ orders'[m.o].chall[m.i] = "processing"
              /\ jobs' = jobs
        /\ (pc[r] = "commit" /\ pc'[r] # "commit" /\ m.view = "challenge")
           => /\ pc'[r] = "respond"
              /\ jobs'.valEnq = [jobs.valEnq EXCEPT ![c] = @ + 1]
              /\ orders' = orders
      ]_vars

\* A challenge was triggered, validated as invalid and triggered again: the
\* answer shows it invalid and there is still one job.
C7_Witness ==
    \E r \in Slots :
        /\ pc[r] = "respond" /\ req[r].view = "challenge"
        /\ resp[r] = Reply("challenge", "invalid")
        /\ orders[req[r].o].chall[req[r].i] = "invalid"
        /\ jobs.valEnq[<<req[r].o, req[r].i>>] = 1

\* C8 as stated: at most one validation job is enqueued for a challenge.
C8_OneValidationJob ==
    \A c \in OrderIds \X Idents : jobs.valEnq[c] <= 1

\* C9: when the issuance job of an order is enqueued the order is saved as
\* processing (or is already valid or invalid), and when the validation job
\* of a challenge is enqueued the challenge is saved as processing (or is
\* already valid or invalid): the worker never finds them ready or pending.
C9_EnqueueAfterSave ==
    /\ \A o \in OrderIds :
        jobs.issueEnq[o] > 0 => orders[o].status \in {"processing", "valid", "invalid"}
    /\ \A c \in OrderIds \X Idents :
        jobs.valEnq[c] > 0
        => orders[c[1]].chall[c[2]] \in {"processing", "valid", "invalid"}

\* The jobs of a triggered challenge and of a finalized order are enqueued
\* and the worker has not run the issuance yet.
C9_Witness ==
    \E o \in OrderIds :
        /\ jobs.issueEnq[o] = 1 /\ jobs.issueRun[o] = 0
        /\ orders[o].status = "processing"
        /\ \E r \in Slots : pc[r] = "respond" /\ req[r].view = "finalize"
                            /\ resp[r] = Reply("order", "processing")

\* C10 as stated: an account that is deactivated stays deactivated.
C10_DeactivationTerminal ==
    [][\A k \in Keys :
            acct[k].status = "deactivated" => acct'[k].status = "deactivated"
      ]_vars

\* C11 as stated: an account that is deactivated owns no pending order and
\* no pending authorization.
C11_NoPendingAfterDeactivation ==
    \A k \in Keys, o \in OrderIds :
        (acct[k].status = "deactivated" /\ orders[o].account = k)
        => /\ orders[o].status # "pending"
           /\ \A i \in orders[o].idents : orders[o].auth[i] # "pending"

\* What FinalizeCheck finds before it validates the CSR: a finalize message
\* for an order of the account that is ready, with valid authorizations.
ReachesCSR(r) ==
    /\ pc[r] = "handler" /\ req[r].view = "finalize" /\ req[r].body = "msg"
    /\ OrderFound(orders, req[r].key, req[r].o)
    /\ orders[req[r].o].status = "ready"
    /\ \A i \in orders[req[r].o].idents : orders[req[r].o].auth[i] = "valid"

\* C12: finalize goes on to create the certificate request only if the CSR
\* has a SubjectAlternativeName extension whose names are exactly the names
\* of the order; a CSR without the extension or with any other set of names
\* is answered BadCSR and changes nothing.
C12_SanEqualsOrder ==
    [][\A r \in Slots :
        LET csr == req[r].csr
            names == orders[req[r].o].idents IN
        (ReachesCSR(r) /\ pc'[r] # "handler")
        => /\ pc'[r] = "save" => (csr.san # NoSAN /\ csr.san = names)
           /\ (csr.san = NoSAN \/ csr.san # names)
                => /\ pc'[r] = "respond" /\ resp'[r] = Reply("badCSR", None)
                   /\ orders' = orders /\ jobs' = jobs
      ]_vars

\* A CSR that is in order but for its names, which overlap the names of the
\* order without containing or being contained in them, was answered BadCSR.
C12_Witness ==
    \E r \in Slots :
        LET csr == req[r].csr
            names == orders[req[r].o].idents IN
        /\ pc[r] = "respond" /\ req[r].view = "finalize"
        /\ resp[r] = Reply("badCSR", None)
        /\ csr.sig /\ csr.hash = "sha256" /\ ~csr.subject
        /\ csr.san # NoSAN /\ csr.san \cap names # {}
        /\ ~(csr.san \subseteq names) /\ ~(names \subseteq csr.san)

\* C13: a CSR whose subject has a CommonName that is not a name of the order
\* is answered BadCSR; a CSR without a subject that is in order otherwise is
\* accepted whatever CommonName rule there is.
C13_CommonNameInOrder ==
    [][\A r \in Slots :
        LET csr == req[r].csr
            names == orders[req[r].o].idents IN
        (ReachesCSR(r) /\ pc'[r] # "handler")
        => /\ (csr.subject /\ csr.cn # None /\ csr.cn \notin names)
                => /\ pc'[r] = "respond" /\ resp'[r] = Reply("badCSR", None)
                   /\ orders' = orders /\ jobs' = jobs
           /\ (~csr.subject /\ csr.sig /\ csr.hash = "sha256" /\ csr.san = names)
                => pc'[r] = "save"
      ]_vars

\* A CSR that is in order but for its CommonName, which the order does not
\* name, was answered BadCSR.
C13_Witness ==
    \E r \in Slots :
        LET csr == req[r].csr
            names == orders[req[r].o].idents IN
        /\ pc[r] = "respond" /\ req[r].view = "finalize"
        /\ resp[r] = Reply("badCSR", None)
        /\ csr.sig /\ csr.hash = "sha256" /\ csr.subject /\ csr.sane
        /\ csr.cn # None /\ csr.cn \notin names
        /\ csr.san = names

\* The envelope of the last refusal has both a jwk and a kid, or neither of
\* them, and is in order as far as the checks before the keys go.
BothKeys(e) == e.jwk # None /\ e.kid # None
NeitherKey(e) == e.jwk = None /\ e.kid = None
RefusedKeys ==
    /\ rejected # NoRefusal
    /\ rejected.env.ctype /\ rejected.env.parse
    /\ BothKeys(rejected.env) \/ NeitherKey(rejected.env)

\* C14 as stated: a request with both a jwk and a kid, or with neither, that
\* is refused is refused as Malformed, whether the CA serial is known or not.
C14_KeysMalformedAnySerial ==
    RefusedKeys => ErrorKind(rejected.check) = "malformed"

\* C14: no request with both a jwk and a kid, or with neither, reaches a
\* handler.  With both it is refused as Malformed whatever the CA serial;
\* with neither it is refused as Malformed when the serial names a usable CA
\* and as NotFound when it does not.
C14_KeysMalformedOrNotFound ==
    /\ \A r \in Slots :
        pc[r] # "idle" => ~BothKeys(req[r].env) /\ ~NeitherKey(req[r].env)
    /\ RefusedKeys =>
        ErrorKind(rejected.check) =
            IF BothKeys(rejected.env) \/ rejected.env.serial \in UsableCAs
            THEN "malformed" ELSE "notFound"

\* A request with neither key, addressed to a serial that names no usable
\* CA, was refused.
C14_Witness ==
    /\ RefusedKeys /\ NeitherKey(rejected.env)
    /\ rejected.env.serial \notin UsableCAs

\* The checks of post() that come before validate_nonce
PreNonceChecks ==
    {"contentType", "parse", "jwkAndKid", "ca", "jwkRefused", "kidRefused",
     "accountMissing", "accountUnusable", "noKey", "signatures", "alg", "signature"}

\* C15: a request refused by a check that comes before validate_nonce leaves
\* the cache entry and the history of its nonce, and of every other nonce
\* there was, as they were; if the nonce was unused it still validates.
C15_RefusalKeepsNonce ==
    [][(rejected' # NoRefusal /\ rejected'.check \in PreNonceChecks)
        => \A k \in CacheKeys :
            \* the key of the Replay-Nonce of the response is new
            k # <<rejected'.env.serial, nextNonce + 1>>
            => /\ cache'[k] = cache[k] /\ nonces'[k] = nonces[k]
               /\ validate_nonce(cache', k[1], k[2]) = validate_nonce(cache, k[1], k[2])
      ]_vars

\* A request that carried an unused nonce was refused for its signature, and
\* the nonce is unused still.
C15_Witness ==
    /\ rejected.check = "signature"
    /\ nonces[<<rejected.env.serial, rejected.nonce>>].issued
    /\ cache[<<rejected.env.serial, rejected.nonce>>] = 0
    /\ validate_nonce(cache, rejected.env.serial, rejected.nonce)

\* C16: validate_nonce returns True only for a nonce that get_nonce issued
\* under the same serial; no request was accepted with a nonce that was not.
C16_ValidOnlyIfIssuedForSerial ==
    \A key \in CacheKeys :
        /\ validate_nonce(cache, key[1], key[2]) => nonces[key].issued
        /\ nonces[key].accepted > 0 => nonces[key].issued

\* A request was refused at validate_nonce with a nonce that was issued, but
\* under another serial than the one the request was made to.
C16_Witness ==
    /\ rejected.check = "nonce"
    /\ ~nonces[<<rejected.env.serial, rejected.nonce>>].issued
    /\ \E s \in Serials \ {rejected.env.serial} : nonces[<<s, rejected.nonce>>].issued

\* C17: there never is more than one account row with the same key, and a
\* new-account request with a key that has an account is answered with that
\* account (200, not 201) and leaves the accounts as they are.
C17_NewAccountIdempotent ==
    [][/\ \A k \in Keys : acct'[k].rows <= 1 /\ (acct'[k].rows = 0 <=> acct'[k].status = "absent")
       /\ \A r \in Slots :
            (/\ Handles(r, "new-account") /\ pc'[r] # "handler"
             /\ acct[req[r].key].status # "absent")
            => /\ acct' = acct
               /\ resp'[r] = Reply("account", acct[req[r].key].status)
      ]_vars

\* new-account was answered with the account that the key already had.
C17_Witness ==
    \E r \in Slots :
        /\ pc[r] = "respond" /\ req[r].view = "new-account" /\ ~req[r].ore
        /\ resp[r] = Reply("account", "valid")
        /\ acct[req[r].key].rows = 1

\* C18: a new-account request with onlyReturnExisting never creates an
\* account: without an account for the key it is answered Malformed of type
\* accountDoesNotExist, with one it is answered with that account.
C18_OnlyReturnExisting ==
    [][\A r \in Slots :
        (Handles(r, "new-account") /\ pc'[r] # "handler" /\ req[r].ore)
        => /\ acct' = acct
           /\ resp'[r] = IF acct[req[r].key].status = "absent"
                         THEN Reply("malformed", "accountDoesNotExist")
                         ELSE Reply("account", acct[req[r].key].status)
      ]_vars

\* new-account with onlyReturnExisting was answered accountDoesNotExist and
\* the key has no account.
C18_Witness ==
    \E r \in Slots :
        /\ pc[r] = "respond" /\ req[r].view = "new-account" /\ req[r].ore
        /\ resp[r] = Reply("malformed", "accountDoesNotExist")
        /\ acct[req[r].key].status = "absent"

\* C19: the order, finalize, authorization, challenge and certificate views
\* answer a slug that no row has and a slug of a row of another account
\* with the same Unauthorized response, and change nothing; none of them
\* ever answers NotFound.
C19_MissingLikeForeign ==
    [][\A r \in Slots :
        (/\ pc[r] = "handler" /\ pc'[r] # "handler"
         /\ req[r].view \in SlugViews /\ PayloadCheck(req[r]) = "ok")
        => /\ resp'[r].kind # "notFound"
           /\ (SlugMissing(orders, req[r]) \/ SlugForeign(orders, req[r]))
                => /\ pc'[r] = "respond"
                   /\ resp'[r] = Reply("unauthorized", None)
                   /\ orders' = orders /\ jobs' = jobs
      ]_vars

\* The certificate of another account's order was asked for and the answer
\* was Unauthorized.
C19_Witness ==
    \E r \in Slots :
        /\ pc[r] = "respond" /\ req[r].view = "cert"
        /\ SlugForeign(orders, req[r])
        /\ resp[r] = Reply("unauthorized", None)

\* C20: a new-order request is answered Malformed, and no order is created,
\* if not-before is given and precedes now, or not-after is given and exceeds
\* now plus the maximum validity, or both are given and not-before does not
\* precede not-after, or there is no identifier; any other new-order
\* request creates a pending order.
C20_NewOrderValidated ==
    [][\A r \in Slots :
        LET m == req[r]
            refused ==
                \/ m.nb # NoTime /\ m.nb < m.now
                \/ m.na # NoTime /\ m.na > m.now + ACME_MAX_CERT_VALIDITY
                \/ m.nb # NoTime /\ m.na # NoTime /\ ~(m.nb < m.na)
                \/ m.idents = {} IN
        (Handles(r, "new-order") /\ pc'[r] # "handler")
        => IF refused
           THEN resp'[r] = Reply("malformed", None) /\ orders' = orders
           ELSE /\ resp'[r] = Reply("orderCreated", "pending")
                /\ \E o \in OrderIds :
                    /\ orders[o].status = "absent"
                    /\ orders'[o] = NewOrderRow(m.key, m.idents)
      ]_vars

\* The key of the Replay-Nonce of a response under the serial
ReplayKey(serial) == <<serial, nextNonce + 1>>

\* The nonce of the key was not issued before the step, and after it the
\* nonce is issued, unused and valid.
FreshNonce(key) ==
    /\ ~nonces[key].issued /\ cache[key] = Absent
    /\ nonces'[key].issued /\ nonces'[key].accepted = 0
    /\ cache'[key] = 0
    /\ validate_nonce(cache', key[1], key[2])

\* C21: every response of a handler and every refusal of post(), BadNonce
\* included, carries a nonce that was just issued for the serial of the
\* request, is unused and validates; a request is only let through with a
\* nonce that was unused, so a correctly signed request that replays a
\* nonce is answered BadNonce, with such a new nonce.
C21_ReplayNonceFresh ==
    [][/\ \A r \in Slots :
            /\ (pc[r] = "respond" /\ pc'[r] = "idle") => FreshNonce(ReplayKey(req[r].serial))
            /\ (pc[r] = "idle" /\ pc'[r] = "handler")
                => \E n \in NonceIds :
                    LET key == <<req'[r].serial, n>> IN
                    cache[key] = 0 /\ cache'[key] = 1
       /\ rejected' # NoRefusal => FreshNonce(ReplayKey(rejected'.env.serial))
       /\ (rejected' # NoRefusal /\ rejected'.nonce # NoNonce)
            => LET key == <<rejected'.env.serial, rejected'.nonce>> IN
               (cache[key] # 0 <=> rejected'.check = "nonce")
      ]_vars

\* A correctly signed request that replayed a nonce was answered BadNonce,
\* and the nonce of that answer is unused.
C21_Witness ==
    /\ rejected.check = "nonce"
    /\ nonces[<<rejected.env.serial, rejected.nonce>>].accepted = 1
    /\ cache[<<rejected.env.serial, rejected.nonce>>] = 2
    /\ cache[<<rejected.env.serial, nextNonce>>] = 0

(* ======================= properties of create_cert ==================== *)
\* create_cert has merged cert_extensions and has not changed it since.
Merged == call.pc = "update_from_ca"

\* C22: the extensions create_cert has merged, before it adds those of the
\* CA, are: for a key the call passes with a value, that value; for a key the
\* call passes with None, no entry; for every other key, the value of the
\* profile.
C22_MergedExtensions ==
    Merged =>
        \A k \in ExtKeys :
            call.cert_extensions[k] =
                IF call.args.extensions[k] = NullExt THEN NoExt
                ELSE IF call.args.extensions[k] # NoExt THEN call.args.extensions[k]
                ELSE call.prof.extensions[k]

\* The extensions were merged for a call that passes None for a key of the
\* profile and a value for another key.
C22_Witness ==
    /\ Merged
    /\ \E k \in ExtKeys :
        /\ call.prof.extensions[k] # NoExt /\ call.args.extensions[k] = NullExt
        /\ call.cert_extensions[k] = NoExt
    /\ call.cert_extensions[BC] = call.prof.extensions[BC]

\* The call has returned the signed certificate.
Returned == call.pc = "returned"

\* The extension kinds the call passes None for
NullOverrides == {k \in ExtKeys : call.args.extensions[k] = NullExt}

\* C23 as stated: an override of None for an extension kind removes the
\* extension, the signed certificate has no extension of that kind, whatever
\* the kind and the CA.
C23_NullAlwaysRemoves ==
    Returned => \A k \in NullOverrides : k \notin call.cert

\* The steps after the merge that create an extension of kind k when the
\* key is missing: the AuthorityKeyIdentifier of the CA and the
\* SubjectKeyIdentifier of the public key always, the CRL, OCSP and issuer
\* URLs and the IssuerAlternativeName of the CA when their toggle is on and
\* the CA has the value, the SubjectAlternativeName when the subject has a
\* CommonName and CN-in-SAN is on.
Readded(c, k) ==
    \/ k \in {AKI, SKI}
    \/ k = CRL /\ Toggle(c, "add_crl_url") /\ c.ca.crl_url # NoUrl
    \/ k = AIA /\ Toggle(c, "add_ocsp_url") /\ c.ca.ocsp_url # NoUrl
    \/ k = AIA /\ Toggle(c, "add_issuer_url") /\ c.ca.issuer_url # NoUrl
    \/ k = IAN /\ Toggle(c, "add_issuer_alternative_name") /\ c.ca.issuer_alt_name # <<>>
    \/ k = SAN /\ CnInSan(c) /\ SubjectUpdate(c.prof.subject_cn, c.args.subject_cn) # NoCN

\* C23 (amended): an override of None for an extension kind removes the
\* extension of the profile; the signed certificate has an extension of
\* that kind exactly when a later step of create_cert creates one from the
\* CA, the public key or the CommonName.
C23_NullRemovesUnlessReadded ==
    Returned => \A k \in NullOverrides : (k \in call.cert) <=> Readded(call, k)

\* A certificate was signed without the BasicConstraints of the profile
\* because the call passed None for it.
C23_Witness ==
    /\ Returned
    /\ BC \in NullOverrides
    /\ call.prof.extensions[BC] # NoExt
    /\ BC \notin call.cert

\* The overrides of the call for the keys in S only
Restrict(extensions, S) == [k \in ExtKeys |-> IF k \in S THEN extensions[k] ELSE NoExt]

\* The keys the call passes an override for
Overridden == {k \in ExtKeys : call.args.extensions[k] # NoExt}

\* C24: the merge is idempotent, merging the overrides of the call into the
\* merged extensions again changes nothing, and it is commutative for
\* overrides on disjoint keys, merging one part of the overrides and then
\* the rest gives the merged extensions in either order.
C24_MergeIdempotentCommutative ==
    Merged =>
        /\ MergeExtensions(call.cert_extensions, call.args.extensions) = call.cert_extensions
        /\ \A S \in SUBSET Overridden :
              LET one == Restrict(call.args.extensions, S)
                  other == Restrict(call.args.extensions, Overridden \ S) IN
              /\ MergeExtensions(MergeExtensions(call.prof.extensions, one), other)
                    = call.cert_extensions
              /\ MergeExtensions(MergeExtensions(call.prof.extensions, other), one)
                    = call.cert_extensions

\* The call merged overrides for two keys, one that replaces the extension
\* of the profile and one new to it.
C24_Witness ==
    /\ Merged
    /\ Cardinality(Overridden) = 2
    /\ \E k \in Overridden :
          /\ call.prof.extensions[k] # NoExt
          /\ call.cert_extensions[k] \notin {NoExt, call.prof.extensions[k]}
    /\ \E k \in Overridden : call.prof.extensions[k] = NoExt /\ call.cert_extensions[k] # NoExt

\* How often the name x is in the list of values
Count(value, x) == Cardinality({i \in 1..Len(value) : value[i] = x})

\* C25: when _update_san_from_cn returns, if the subject had a CommonName
\* and CN-in-SAN is on, the SubjectAlternativeName holds the values it had
\* and the parsed CommonName exactly once, appended if it was missing; if
\* CN-in-SAN is off no extension has changed; if the subject had no
\* CommonName and there is a SubjectAlternativeName with a value, the
\* CommonName is now the bare string of its first value.
C25_SanFromCN ==
    [][(call.pc = "update_san_from_cn" /\ call'.pc = "check") =>
        LET cn == call.cert_cn
            san == call.cert_extensions[SAN]
            was == IF san = NoExt THEN <<>> ELSE san.value
            now == call'.cert_extensions[SAN] IN
        /\ \A k \in ExtKeys \ {SAN} : call'.cert_extensions[k] = call.cert_extensions[k]
        /\ (cn # NoCN /\ CnInSan(call)) =>
              /\ now.type = SAN
              /\ Count(now.value, parse_general_name(cn)) = 1
              /\ now.value = IF Count(was, parse_general_name(cn)) = 1 THEN was
                             ELSE Append(was, parse_general_name(cn))
              /\ call'.cert_cn = cn
        /\ ~CnInSan(call) => now = san
        /\ cn = NoCN => now = san
        /\ (cn = NoCN /\ san # NoExt /\ was # <<>>) => call'.cert_cn = was[1].val
        /\ (cn = NoCN /\ (san = NoExt \/ was = <<>>)) => call'.cert_cn = NoCN
    ]_vars

\* The call passed a SubjectAlternativeName that already names the
\* CommonName, and the extension still has it once.
C25_Witness ==
    /\ call.pc = "check"
    /\ CnInSan(call)
    /\ call.cert_cn = "a.example"
    /\ call.args.extensions[SAN] = ExtOf(SAN, "a.example")
    /\ call.cert_extensions[SAN].value = <<parse_general_name("a.example")>>

\* C26: the check after the CN/SAN reconciliation raises the validation
\* error exactly when the subject of the certificate has no CommonName and
\* its SubjectAlternativeName is missing or has no value, and then the hook
\* has not fired and nothing is signed.
C26_NameCheckOnEffective ==
    [][call.pc = "check" =>
        LET san == call.cert_extensions[SAN]
            nameless == call.cert_cn = NoCN /\ (san = NoExt \/ san.value = <<>>) IN
        /\ (call'.pc = "raised" /\ call'.err = "ValueError") <=> nameless
        /\ call'.pc = "raised" => (call'.hooks = 0 /\ ~call'.signed)
    ]_vars

\* The steps of create_cert that validate the call before the hook
Validation == {"update_from_ca", "update_san_from_cn", "check"}

ListOf(e, field) ==
    IF e = NoExt THEN <<>>
    ELSE IF field = "ocsp" THEN e.ocsp
    ELSE IF field = "issuers" THEN e.issuers
    ELSE e.value

\* One feature of _update_from_ca did what its toggle says: with the toggle
\* on and a value of the CA the list is the merged list followed by the
\* CA's items, otherwise the list is the merged list.
Augmented(before, after, k, field, toggle, items) ==
    IF toggle /\ items # <<>>
    THEN /\ after[k].type = k
         /\ ListOf(after[k], field) = ListOf(before[k], field) \o items
    ELSE ListOf(after[k], field) = ListOf(before[k], field)

\* C28: when _update_from_ca returns, each of the CRL URL, the OCSP URL, the
\* issuer URL and the IssuerAlternativeName of the CA has been appended to
\* the list of its extension, after the values the merge left there, if its
\* toggle (the argument, else the profile's) is on and the CA has the
\* value; an extension none of whose features applies is as merged.
C28_AdditiveToggles ==
    [][(call.pc = "update_from_ca" /\ call'.pc = "update_san_from_cn") =>
        LET before == call.cert_extensions
            after == call'.cert_extensions
            crl == Toggle(call, "add_crl_url") /\ call.ca.crl_url # NoUrl
            ocsp == Toggle(call, "add_ocsp_url") /\ call.ca.ocsp_url # NoUrl
            issuer == Toggle(call, "add_issuer_url") /\ call.ca.issuer_url # NoUrl
            ian == Toggle(call, "add_issuer_alternative_name") /\ call.ca.issuer_alt_name # <<>>
        IN
        /\ Augmented(before, after, CRL, "value", Toggle(call, "add_crl_url"),
                     UrlItems(call.ca.crl_url))
        /\ Augmented(before, after, AIA, "ocsp", Toggle(call, "add_ocsp_url"),
                     UrlItems(call.ca.ocsp_url))
        /\ Augmented(before, after, AIA, "issuers", Toggle(call, "add_issuer_url"),
                     UrlItems(call.ca.issuer_url))
        /\ Augmented(before, after, IAN, "value", Toggle(call, "add_issuer_alternative_name"),
                     call.ca.issuer_alt_name)
        /\ ~crl => after[CRL] = before[CRL]
        /\ ~(ocsp \/ issuer) => after[AIA] = before[AIA]
        /\ ~ian => after[IAN] = before[IAN]
        /\ \A k \in ExtKeys \ {AKI, CRL, AIA, IAN} : after[k] = before[k]
    ]_vars

\* The call passed a CRLDistributionPoints of its own and switched the OCSP
\* URL off: the CRL URL of the CA follows the value of the call, the
\* AuthorityInformationAccess has the issuer URL only.
C28_Witness ==
    /\ call.pc = "update_san_from_cn"
    /\ call.args.extensions[CRL] = ExtOf(CRL, "http://call")
    /\ call.cert_extensions[CRL].value = ExtOf(CRL, "http://call").value \o UrlItems(call.ca.crl_url)
    /\ call.ca.crl_url # NoUrl
    /\ call.args.add_ocsp_url = "off"
    /\ call.ca.ocsp_url # NoUrl
    /\ call.cert_extensions[AIA].ocsp = <<>>
    /\ call.cert_extensions[AIA].issuers = UrlItems(call.ca.issuer_url)

C30_OnlySignerAccountChanges ==
    [][\A r \in Slots :
          (pc[r] = "save" /\ req[r].view = "account" /\ pc'[r] # "save") =>
              \A b \in Keys \ {req[r].key} : acct'[b] = acct[b]
    ]_vars

(* ------------------------ properties of ownership ---------------------- *)
\* The request slot r takes a step of its handler.
HandlerStep(r) == pc[r] \in {"handler", "save", "commit"} /\ pc'[r] # pc[r]

\* The orders of other accounts than k, with their authorizations,
\* challenges and certificate, and the jobs for them, are as they were.
OthersUnchanged(k) ==
    \A o \in OrderIds :
        (orders[o].status # "absent" /\ orders[o].account # k) =>
            /\ orders'[o] = orders[o]
            /\ jobs'.issueEnq[o] = jobs.issueEnq[o]
            /\ \A i \in Idents : jobs'.valEnq[<<o, i>>] = jobs.valEnq[<<o, i>>]

\* C31: a step of the handler of a request authenticated as account A
\* leaves every order of another account, its authorizations, challenges
\* and certificate as they were, enqueues no job for them, and answers with
\* an order, authorization, challenge or certificate only if it is A's.
C31_OnlyOwnResources ==
    [][\A r \in Slots :
          HandlerStep(r) =>
              /\ OthersUnchanged(req[r].key)
              /\ resp'[r].kind \in {"order", "authz", "challenge", "cert"} =>
                    orders[req[r].o].account = req[r].key
    ]_vars

(* ---------------------- properties of the hook ------------------------- *)
\* The classes of the extensions of a dict
ExtensionClasses(d) == {d[k].type : k \in {j \in ExtKeys : d[j] # NoExt}}

\* C32: the subject and the extensions the pre-issue hook was given are
\* those of the certificate that is signed afterwards: the same CommonName
\* and the same set of extensions, none added and none removed after the
\* hook.
C32_HookSeesCertificate ==
    Returned =>
        /\ call.sent.subject_cn = call.cert_cn
        /\ ExtensionClasses(call.sent.extensions) = call.cert

(* -------------------- properties of repeated calls --------------------- *)
\* The second call with the same arguments has returned.
ReturnedAgain == Returned /\ call.round = 2

\* The call passed an extension object of its own for key k.
Passed(c, k) == c.args.extensions[k] \notin {NoExt, NullExt}

\* C33: create_cert does not change the extension objects the caller
\* passed, and a second call with the same profile, CA and overrides gives
\* the extensions the first call gave: nothing from the CA accumulates.
C33_Repeatable ==
    /\ Returned =>
          \A k \in ExtKeys :
              Passed(call, k) =>
                  ArgumentNow(call.args.extensions, call.cert_extensions, k)
                      = call.args.extensions[k]
    /\ ReturnedAgain => call.cert_extensions = call.first.extensions

\* The extension for key k that a second call gives, from the extensions of
\* the first: an object the caller passed has the values of the CA that
\* apply to it appended once more.
Again(c, k) ==
    LET e == c.first.extensions[k]
        more(feature, toggle, items) ==
            IF k = feature /\ Passed(c, k) /\ Toggle(c, toggle) THEN items ELSE <<>>
    IN IF e = NoExt THEN e
       ELSE [e EXCEPT
                !.value = @ \o more(CRL, "add_crl_url", UrlItems(c.ca.crl_url))
                            \o more(IAN, "add_issuer_alternative_name", c.ca.issuer_alt_name),
                !.ocsp = @ \o more(AIA, "add_ocsp_url", UrlItems(c.ca.ocsp_url)),
                !.issuers = @ \o more(AIA, "add_issuer_url", UrlItems(c.ca.issuer_url))]

\* C33 (amended): create_cert changes neither the profile nor the CA; it
\* appends the values of the CA to the extension objects the caller passed,
\* so a second call with the same objects gives a certificate with the same
\* kinds of extensions in which every extension is as in the first call,
\* except that a passed CRLDistributionPoints, AuthorityInformationAccess
\* or IssuerAlternativeName has the CA's values once more when their toggle
\* is on; the CommonName is not added to a passed SubjectAlternativeName a
\* second time.
C33_RepeatAccumulatesInPassed ==
    /\ [](ReturnedAgain =>
            /\ call.cert = call.first.cert
            /\ \A k \in ExtKeys : call.cert_extensions[k] = Again(call, k))
    /\ [][call.pc # None => (call'.prof = call.prof /\ call'.ca = call.ca)]_vars

\* The caller passed a CRLDistributionPoints of its own and called twice:
\* the extension of the second certificate has the CRL URL of the CA twice.
C33_Witness ==
    /\ ReturnedAgain
    /\ Passed(call, CRL)
    /\ call.first.extensions[CRL].value = ExtOf(CRL, "http://call").value \o UrlItems(call.ca.crl_url)
    /\ call.cert_extensions[CRL].value =
            call.first.extensions[CRL].value \o UrlItems(call.ca.crl_url)
    /\ call.ca.crl_url # NoUrl

(* ------------------- properties of refused requests -------------------- *)
\* The kinds of response with which finalize refuses a request
FinalizeRefusals == {"unauthorized", "forbidden", "badCSR"}

\* C34: when the finalize handler refuses a request as Unauthorized,
\* Forbidden (orderNotReady) or BadCSR, every order is as it was, with its
\* status and without a new certificate request, and no job was enqueued.
C34_RefusedFinalizeChangesNothing ==
    [][\A r \in Slots :
          (/\ HandlerStep(r)
           /\ req[r].view = "finalize"
           /\ resp'[r].kind \in FinalizeRefusals) =>
              (orders' = orders /\ jobs' = jobs)
    ]_vars

\* A finalize request for a ready order was refused for its CSR: the order
\* is still ready and has no certificate request, no issuance job waits.
C34_Witness ==
    \E r \in Slots :
        /\ pc[r] = "respond"
        /\ req[r].view = "finalize"
        /\ resp[r].kind = "badCSR"
        /\ req[r].o \in OrderIds
        /\ orders[req[r].o].status = "ready"
        /\ orders[req[r].o].cert = "none"
        /\ jobs.issueEnq[req[r].o] = 0

(* ------------------ specification of the account views ----------------- *)
\* The handlers of new-account and account under every message: contact
\* lists with a contact of every kind validate_contacts distinguishes, with
\* and without another field of messages.Registration (other), for keys with
\* and without an account.
AccountViews == {"new-account", "account"}

\* "tel:+12025551234", "mailto:\"a b\"@example.com", "mailto:a@example.com,b@example.com",
\* "mailto:user.example.com", "mailto:a@example.com?subject=x", "mailto:a b@example.com"
ContactKinds ==
    {GoodContact("b"),
     [GoodContact("b") EXCEPT !.mailto = FALSE],
     [GoodContact("b") EXCEPT !.quoted = TRUE],
     [GoodContact("b") EXCEPT !.comma = TRUE, !.syntax = FALSE],
     [GoodContact("b") EXCEPT !.at = FALSE, !.syntax = FALSE],
     [GoodContact("b") EXCEPT !.hfield = TRUE, !.syntax = FALSE],
     [GoodContact("b") EXCEPT !.syntax = FALSE]}

ContactLists ==
    {<<>>} \cup {<<c>> : c \in ContactKinds}
    \cup {<<c, d>> : c \in ContactKinds, d \in ContactKinds}

AccountInputs(v) ==
    IF v = "new-account" THEN
        {[NoReq EXCEPT !.body = "msg", !.contact = c, !.ore = b, !.other = x] :
            c \in ContactLists, b \in BOOLEAN, x \in BOOLEAN}
        \cup {[NoReq EXCEPT !.body = "garbage"]}
    ELSE
        {[NoReq EXCEPT !.body = "msg", !.k = k, !.status = s, !.contact = c, !.other = x] :
            k \in Keys, s \in {None, "deactivated"}, c \in ContactLists, x \in BOOLEAN}
        \cup {[NoReq EXCEPT !.body = "garbage"]}

AccountRows == {NoAccount, Registered, [Registered EXCEPT !.status = "deactivated"]}

\* The envelope of a request that post() accepts with the key k itself
KeyEnvelope(k) == [GoodEnvelope(k) EXCEPT !.jwk = k, !.kid = None]

InitAccount ==
    /\ cache = [key \in CacheKeys |-> IF key = <<"ca1", 1>> THEN 1 ELSE Absent]
    /\ nextNonce = 1
    /\ nonces = [key \in CacheKeys |->
                    IF key = <<"ca1", 1>>
                    THEN [issued |-> TRUE, accepted |-> 1, refused |-> FALSE]
                    ELSE NoLog]
    /\ \E a \in [Keys -> AccountRows], v \in AccountViews, k \in Keys,
          row \in {NoOrder, PendingRow("k1", Idents), ReadyRow("k1", {"a.example"})} :
        \E m \in AccountInputs(v) :
            /\ v = "account" => a[k] = Registered
            /\ row # NoOrder => a["k1"] # NoAccount
            /\ acct = a
            /\ orders = [o \in OrderIds |-> IF o = 1 THEN row ELSE NoOrder]
            /\ jobs = ValidationJobs(row)
            /\ req = [r \in Slots |->
                        IF r = "r1"
                        THEN [m EXCEPT !.view = v, !.serial = "ca1", !.key = k,
                                       !.env = IF RequiresKey(v) THEN KeyEnvelope(k)
                                               ELSE GoodEnvelope(k),
                                       !.url = TRUE]
                        ELSE NoReq]
    /\ pc = [r \in Slots |-> IF r = "r1" THEN "handler" ELSE "idle"]
    /\ resp = [r \in Slots |-> NoResp]
    /\ rejected = NoRefusal
    /\ call = NoCall
    /\ revocation = NoRevocations

NextAccount == Refuse \/ Register \/ UpdateRead \/ UpdateWrite \/ Answer

SpecAccount == InitAccount /\ [][NextAccount]_vars

(* ------------------ properties of contact validation ------------------- *)
\* The request reaches self.validate_contacts(message)
Validates(a, m) ==
    IF m.view = "new-account"
    THEN /\ ~m.ore
         /\ a[m.key].status = "absent"
         /\ ~(AcmeRequiresContact(m.serial) /\ Emails(m.contact) = <<>>)
    ELSE /\ a[m.k].status # "absent"
         /\ m.status # "deactivated"
         /\ m.contact # <<>>

\* The first contact of the list that validate_contacts does not accept
FirstRefused(cs) ==
    cs[CHOOSE i \in 1..Len(cs) :
            /\ validate_contact(cs[i]) # "ok"
            /\ \A j \in 1..(i - 1) : validate_contact(cs[j]) = "ok"]

\* The error type a refused contact is to be answered with
ContactError(c) == IF ~c.mailto THEN "unsupportedContact" ELSE "invalidContact"

\* C35: a request whose contact list has a contact that fails validation is
\* answered Malformed, with unsupportedContact if the first such contact has
\* another scheme than mailto and with invalidContact otherwise (quoted
\* local part, comma, no "@", "?" in the domain part, syntax), and with
\* no other error.
C35_RefusedContactIsMalformed ==
    [][\A r \in Slots :
          (/\ HandlerStep(r)
           /\ req[r].view \in AccountViews
           /\ PayloadCheck(req[r]) = "ok"
           /\ Validates(acct, req[r])
           /\ validate_contacts(req[r].contact) # "ok") =>
              resp'[r] = Reply("malformed", ContactError(FirstRefused(req[r].contact)))
    ]_vars

\* Some contact of the list fails validation
SomeRefused(cs) == \E i \in 1..Len(cs) : validate_contact(cs[i]) # "ok"

\* C36: a request that reaches the validation of its contacts with a list
\* in which some contact fails, the first or a later one, is answered at
\* once and changes nothing: no account is created, the stored contacts and
\* the rest of every account, the orders and the jobs are as they were.
C36_RefusedContactsChangeNothing ==
    [][\A r \in Slots :
          (/\ HandlerStep(r)
           /\ req[r].view \in AccountViews
           /\ PayloadCheck(req[r]) = "ok"
           /\ Validates(acct, req[r])
           /\ SomeRefused(req[r].contact)) =>
              /\ pc'[r] = "respond"
              /\ resp'[r].kind \notin {"account", "accountCreated"}
              /\ acct' = acct /\ orders' = orders /\ jobs' = jobs
    ]_vars

\* An account update whose first contact is valid and whose second is not
\* was refused: the account has the contact it had.
C36_Witness ==
    \E r \in Slots :
        /\ pc[r] = "respond"
        /\ req[r].view = "account"
        /\ req[r].status = None
        /\ Len(req[r].contact) = 2
        /\ validate_contact(req[r].contact[1]) = "ok"
        /\ validate_contact(req[r].contact[2]) = "invalidContact"
        /\ resp[r] = Reply("malformed", "invalidContact")
        /\ acct[req[r].k] = Registered

\* A new-account request whose second contact is not valid was refused: the
\* key has no account.
C36_WitnessNew ==
    \E r \in Slots :
        /\ pc[r] = "respond"
        /\ req[r].view = "new-account"
        /\ Len(req[r].contact) = 2
        /\ validate_contact(req[r].contact[1]) = "ok"
        /\ validate_contact(req[r].contact[2]) # "ok"
        /\ resp[r].kind \in {"malformed", "error"}
        /\ acct[req[r].key] = NoAccount

(* ------------------- properties of the account update ------------------ *)
\* C37: an account update that carries another field than contacts or the
\* status deactivated is answered Malformed, and no account changes (stated
\* for contacts whose address has an "@").
C37_OtherFieldIsMalformed ==
    [][\A r \in Slots :
          (/\ HandlerStep(r)
           /\ pc[r] = "handler"
           /\ req[r].view = "account"
           /\ PayloadCheck(req[r]) = "ok"
           /\ acct[req[r].k].status # "absent"
           /\ validate_contacts(req[r].contact) # "valueError"
           /\ req[r].other) =>
              /\ resp'[r].kind = "malformed"
              /\ acct' = acct
    ]_vars

(* --------------------- properties of new-account ----------------------- *)
\* C38: a new-account request for a CA that requires a contact, with a key
\* that has no account, is answered Unauthorized only if it has no contact;
\* if it has contacts they are validated, so that a list whose first
\* refused contact has another scheme than mailto is answered Malformed
\* with unsupportedContact.
C38_UnauthorizedOnlyWithoutContact ==
    [][\A r \in Slots :
          (/\ HandlerStep(r)
           /\ req[r].view = "new-account"
           /\ PayloadCheck(req[r]) = "ok"
           /\ ~req[r].ore
           /\ acct[req[r].key].status = "absent"
           /\ AcmeRequiresContact(req[r].serial)) =>
              /\ resp'[r].kind = "unauthorized" => req[r].contact = <<>>
              /\ (SomeRefused(req[r].contact) /\ ~FirstRefused(req[r].contact).mailto) =>
                    resp'[r] = Reply("malformed", "unsupportedContact")
    ]_vars

(* ----------------------- properties of deactivation -------------------- *)
\* The request slot r saves a deactivation.
Deactivates(r) ==
    /\ pc[r] = "save" /\ pc'[r] # "save"
    /\ req[r].view = "account"
    /\ req[r].status = "deactivated"

C39_WitnessPending ==
    \E r \in Slots, o \in OrderIds :
        /\ pc[r] = "respond"
        /\ req[r].view = "account"
        /\ req[r].status = "deactivated"
        /\ resp[r] = Reply("account", "deactivated")
        /\ orders[o].account = req[r].k
        /\ orders[o].status = "invalid"
        /\ \A i \in orders[o].idents :
              orders[o].auth[i] = "deactivated" /\ orders[o].chall[i] = "pending"

(* -------------------------- properties of views ------------------------ *)
\* C40: a step of the order, authorization or certificate view changes no
\* account, order, authorization or challenge and enqueues no job; the
\* order view lists the valid authorizations of an order that is valid or
\* invalid, and every authorization of any other order.
C40_ViewsReadOnly ==
    [][\A r \in Slots :
          (/\ HandlerStep(r)
           /\ pc[r] = "handler"
           /\ req[r].view \in {"order", "authz", "cert"}) =>
              /\ acct' = acct /\ orders' = orders /\ jobs' = jobs
              /\ resp'[r].kind = "order" =>
                    LET row == orders[req[r].o] IN
                      resp'[r].listed =
                          IF row.status \in {"valid", "invalid"}
                          THEN {i \in row.idents : row.auth[i] = "valid"}
                          ELSE row.idents
    ]_vars

\* The order view answered for an order that is valid or invalid and left
\* an authorization out that is not valid; the order is as it is shown.
C40_Witness ==
    \E r \in Slots :
        /\ pc[r] = "respond"
        /\ req[r].view = "order"
        /\ resp[r].kind = "order"
        /\ resp[r].detail \in {"valid", "invalid"}
        /\ orders[req[r].o].status = resp[r].detail
        /\ resp[r].listed # orders[req[r].o].idents
        /\ resp[r].listed = {i \in orders[req[r].o].idents : orders[req[r].o].auth[i] = "valid"}

====
